---- MODULE Spec2Model ----
(***************************************************************************)
(* Link-graph construction (analysis.py): the link extractor               *)
(* parse_outgoing_links and the two fetch-parse pipelines                  *)
(* compute_in_out_counts_streaming / compute_in_out_counts_download_then_  *)
(* parse, run by a main thread over two ThreadPoolExecutors.               *)
(*                                                                         *)
(* Strings are modelled as sequences of tokens: a token is a piece of text *)
(* that the extractor never splits (a node name, the HREF keyword in some  *)
(* letter case, '=', '"', a blank, a line break, a piece of markup).       *)
(***************************************************************************)
EXTENDS Naturals, Integers, Sequences, FiniteSets, TLC

VARIABLES
    \* ---- inputs of one pipeline run (fixed by Init) ----
    streaming,        \* args.streaming: TRUE = streaming mode, FALSE = two-phase
    args_limit_files, \* args.limit_files (an int, 0 = all files)
    download_workers, \* max_workers of dl_ex
    parse_workers,    \* max_workers of parse_ex
    bucket,           \* the object store: blob name -> text, for the listed blobs
    \* ---- main thread ----
    pc,               \* position of the main thread
    nodes,            \* local 'nodes' (sorted, truncated list)
    nodes_set,        \* local 'nodes_set'
    created,          \* TRUE once the three graph dicts exist
    out_degree, in_counts, in_links,
    downloaded_text,  \* two-phase only: the content map
    parse_futures,    \* list of parse futures, by node, in submission order
    handled,          \* number of futures the running as_completed loop has yielded
    ac_finished,      \* as_completed: futures already finished when it was called
    ac_waiter,        \* as_completed: futures finished since, in completion order
    ac_on,            \* which pool's futures as_completed watches: "none", "dl", "parse"
    cur,              \* aggregation: <<>> when idle, else <<u, outs, i>>: the i-th
                      \* link of u's outs is the next (pc "agg") or the one whose
                      \* count is already incremented (pc "agg_append")
    \* ---- the pools' tasks ----
    dl_state,         \* node -> "queued" | "running" | "done" | "failed"
    dl_result,        \* node -> text held by the finished download future
    get_calls,        \* node -> number of download_as_text calls made
    parse_state,      \* node -> "queued" | "running" | "done"
    parse_text,       \* node -> text argument held by the parse task
    parse_result,     \* node -> outs held by the finished parse future
    parse_done_order, \* history: the nodes in the order their parse tasks completed
    handle_order,     \* history: the nodes in the order their parse results were handled
    parse_early,      \* history: the parse futures that had finished when
                      \* as_completed(parse_futures) was called
    \* ---- the caller ----
    first_run,        \* <<>>, or the result of an earlier run on the same input
    \* ---- a single call of parse_outgoing_links ----
    p_pc, p_text, p_nodes_set, p_out,
    \* ---- a single call of iterative_pagerank ----
    k_pc,             \* "idle" | "call" | "loop" | "empty" | "converged" | "exhausted"
                      \* | "zero_division" (a ZeroDivisionError was raised)
    k_nodes, k_in_links, k_out_degree,      \* arguments nodes, in_links, out_degree
    damping, base, tol_ratio, max_iters,    \* arguments (fractions <<num, den>>, an int)
    it,               \* iterations performed so far
    pr,               \* node -> score
    old_pr,           \* the scores the last iteration started from
    deltas,           \* the delta of every iteration performed, in order
    warned,           \* TRUE once the warning about sum(PR) is printed
    k_result,         \* <<>>, or the returned pair <<scores, iterations>>
    first_ranking,    \* <<>>, or the in_links, result and deltas of an earlier call
    \* ---- the ranking main prints ----
    s_pc,             \* "idle" | "rank" | "printed"
    s_items,          \* pr.items(): the <<page, score>> pairs in insertion order
    s_top,            \* the pairs main prints, in order
    \* ---- hw3/subscriber.py: the log object and the callback threads ----
    log_generation,   \* generation of the log object, 0 while it does not exist
    log_lines,        \* its content: the lines (one message id each) in order
    delivered,        \* number of messages handed to a callback so far
    cb_pc,            \* thread -> "idle" | "reload" | "download" | "upload"
                      \*           | "ack" | "nack"
    cb_msg,           \* thread -> id of the message its callback processes
    cb_data,          \* thread -> the decoded message (error_type, country)
    attempt,          \* thread -> attempt of the loop of append_to_gcs_txt
    generation,       \* thread -> generation read by this attempt
    existing,         \* thread -> content read by this attempt
    upload_calls,     \* thread -> upload_from_string calls for the message
    append_reported,  \* messages whose append printed 'Appended to (safe)'
    reported_logged,  \* messages reported 'Forbidden request logged successfully!'
    acked, nacked,    \* messages acknowledged, negatively acknowledged
    foreign_appends,  \* appends to the log object by appenders outside this process
    \* ---- hw3/main.py and hw4/main.py: one HTTP request ----
    h_pc,             \* "idle" | "request" | "handler" | "responded"
    h_service,        \* "hw3" | "hw4"
    h_method,         \* request.method
    h_path,           \* request.path, a sequence of "/" and path segments
    h_headers,        \* <<>> without an X-country header, else <<its value>>
    object_present,   \* TRUE if the bucket holds the object a.html
    logger_up,        \* hw3: the Cloud Logging client was created (logger is not None)
    publisher_up,     \* hw3: the Pub/Sub client was created (publisher is not None)
    h_status,         \* status of the response, 0 before it
    h_entries,        \* error_type of every entry handed to log_struct, in order
    h_events,         \* error_type of every event published to the topic, in order
    h_threads,        \* hw4: entries of the publish threads started and not yet run
    store_calls       \* calls of blob.exists and blob.download_as_bytes

pipe_vars == <<streaming, args_limit_files, download_workers, parse_workers, bucket,
               pc, nodes, nodes_set, created, out_degree, in_counts, in_links,
               downloaded_text, parse_futures, handled, ac_finished, ac_waiter,
               ac_on, cur, dl_state, dl_result, get_calls, parse_state, parse_text,
               parse_result, parse_done_order, handle_order, parse_early, first_run>>
parse_vars == <<p_pc, p_text, p_nodes_set, p_out>>
rank_vars == <<k_pc, k_nodes, k_in_links, k_out_degree, damping, base, tol_ratio,
               max_iters, it, pr, old_pr, deltas, warned, k_result, first_ranking>>
sort_vars == <<s_pc, s_items, s_top>>
sub_vars == <<log_generation, log_lines, delivered, cb_pc, cb_msg, cb_data, attempt,
              generation, existing, upload_calls, append_reported, reported_logged,
              acked, nacked, foreign_appends>>
http_vars == <<h_pc, h_service, h_method, h_path, h_headers, object_present,
               logger_up, publisher_up, h_status, h_entries, h_events, h_threads,
               store_calls>>
service_vars == <<sub_vars, http_vars>>
vars == <<pipe_vars, parse_vars, rank_vars, sort_vars, service_vars>>

(***************************************************************************)
(* Bounds.                                                                 *)
(***************************************************************************)
MaxNodes == 3
MaxWorkers == 2
MaxCallbacks == 2
MaxMessages == 2
MaxForeign == 8
MaxLines == 2

(***************************************************************************)
(* Tokens and names.                                                       *)
(***************************************************************************)
NameSeq == <<"a", "b", "c", "d", "e">>
Names == {NameSeq[i] : i \in 1..MaxNodes}
Outsider == "x"
NL == "\n"
SP == " "
QT == "\""
EQ == "="
TAB == "\t"
Whitespace == {SP, TAB}
HrefKeywords == {"HREF", "href", "Href"}

Rank(n) == CHOOSE i \in 1..Len(NameSeq) : NameSeq[i] = n

(***************************************************************************)
(* String helpers used by parse_outgoing_links.                            *)
(***************************************************************************)
\* text.splitlines(), scanning from position i with the current line starting at
\* position start: the pieces between line breaks; a line break at the very end
\* adds no empty piece, and the empty text has no lines.
RECURSIVE SplitFrom(_, _, _)
SplitFrom(text, start, i) ==
    IF i > Len(text)
    THEN IF start > Len(text) THEN <<>> ELSE <<SubSeq(text, start, Len(text))>>
    ELSE IF text[i] = NL
         THEN <<SubSeq(text, start, i - 1)>> \o SplitFrom(text, i + 1, i + 1)
         ELSE SplitFrom(text, start, i + 1)

splitlines(text) == SplitFrom(text, 1, 1)

RECURSIVE lstrip(_)
lstrip(s) == IF s # <<>> /\ Head(s) \in Whitespace THEN lstrip(Tail(s)) ELSE s

RECURSIVE rstrip(_)
rstrip(s) ==
    IF s # <<>> /\ s[Len(s)] \in Whitespace
    THEN rstrip(SubSeq(s, 1, Len(s) - 1))
    ELSE s

\* a faulty variant: only the leading whitespace is removed
strip_leading(s) == lstrip(s)

\* str.strip()
strip(s) == rstrip(lstrip(s))

\* \s* of HREF_RE, from position i: the first position that is not whitespace
RECURSIVE SkipSpace(_, _)
SkipSpace(s, i) ==
    IF i <= Len(s) /\ s[i] \in Whitespace THEN SkipSpace(s, i + 1) ELSE i

\* (.*?)" of HREF_RE, from position i: the position of the next quote, 0 if none
RECURSIVE FindQuote(_, _)
FindQuote(s, i) ==
    IF i > Len(s) THEN 0
    ELSE IF s[i] = QT THEN i
    ELSE FindQuote(s, i + 1)

NoMatch == <<FALSE, <<>>>>

\* re.IGNORECASE on the literal HREF: the keyword in any letter case
IsHref(tok) == tok \in HrefKeywords

\* one attempt of HREF_RE at position i: <<TRUE, group(1)>> or NoMatch
MatchAt(s, i) ==
    IF ~IsHref(s[i]) THEN NoMatch
    ELSE LET e == SkipSpace(s, i + 1) IN
         IF e > Len(s) \/ s[e] # EQ THEN NoMatch
         ELSE LET q == SkipSpace(s, e + 1) IN
              IF q > Len(s) \/ s[q] # QT THEN NoMatch
              ELSE LET c == FindQuote(s, q + 1) IN
                   IF c = 0 THEN NoMatch
                   ELSE <<TRUE, SubSeq(s, q + 1, c - 1)>>

RECURSIVE SearchFrom(_, _)
SearchFrom(s, i) ==
    IF i > Len(s) THEN NoMatch
    ELSE LET m == MatchAt(s, i) IN
         IF m[1] THEN m ELSE SearchFrom(s, i + 1)

\* HREF_RE.search(line): the leftmost match
HREF_RE_search(s) == SearchFrom(s, 1)

\* a faulty variant: any single name is taken for a node
StrIn_any(s, S) == Len(s) = 1

\* 's in nodes_set' for a string s: node names are single tokens
StrIn(s, S) == Len(s) = 1 /\ s[1] \in S

(***************************************************************************)
(* parse_outgoing_links: the loop over the lines, 'out' accumulating.      *)
(***************************************************************************)
RECURSIVE ParseLines(_, _, _)
ParseLines(lines, S, out) ==
    IF lines = <<>> THEN out
    ELSE LET line == strip(Head(lines))
             rest == Tail(lines)
             m    == HREF_RE_search(line)
         IN  IF line = <<>> THEN ParseLines(rest, S, out)
             ELSE IF m[1]
                  THEN LET target == strip(m[2])
                       IN  ParseLines(rest, S,
                               IF StrIn(target, S) THEN Append(out, target[1]) ELSE out)
                  ELSE ParseLines(rest, S,
                           IF StrIn(line, S) THEN Append(out, line[1]) ELSE out)

parse_outgoing_links(text, S) == ParseLines(splitlines(text), S, <<>>)

(***************************************************************************)
(* Inputs of a single call of parse_outgoing_links.                        *)
(***************************************************************************)
N1 == NameSeq[1]
N2 == NameSeq[2]

LinePool ==
    { <<>>, <<SP>>, <<N1>>, <<SP, N1, TAB>>, <<N2>>, <<Outsider>>, <<N1, SP, N2>>,
      <<"<A", SP, "HREF", EQ, QT, N1, QT, ">", "txt", "</A>">>,
      <<"HREF", EQ, QT, N2, QT>>,
      <<"href", SP, EQ, TAB, QT, N1, QT>>,
      <<"HREF", EQ, QT, SP, N1, SP, QT>>,
      <<"HREF", EQ, QT, Outsider, QT>>,
      <<"HREF", EQ, QT, N1>>,
      <<"HREF", EQ, QT, QT, N1, QT>>,
      <<"HREF", EQ, QT, Outsider, QT, SP, "Href", EQ, QT, N1, QT>>,
      <<"HREF", N2, "href", EQ, QT, N1, QT>>,
      <<N1, EQ, QT, N2, QT>> }

RECURSIVE JoinLines(_)
JoinLines(ls) ==
    IF ls = <<>> THEN <<>>
    ELSE IF Len(ls) = 1 THEN ls[1]
    ELSE ls[1] \o <<NL>> \o JoinLines(Tail(ls))

SeqsUpTo(S, n) == UNION {[1..k -> S] : k \in 0..n}

ParseTexts == {JoinLines(ls) : ls \in SeqsUpTo(LinePool, MaxLines)}

InitParse ==
    /\ p_pc = "call"
    /\ p_text \in ParseTexts
    /\ p_nodes_set \in SUBSET Names
    /\ p_out = <<>>

\* out = parse_outgoing_links(text, nodes_set)
ParseCall ==
    /\ p_pc = "call"
    /\ p_out' = parse_outgoing_links(p_text, p_nodes_set)
    /\ p_pc' = "returned"
    /\ UNCHANGED <<p_text, p_nodes_set>>

(***************************************************************************)
(* The pipeline: inputs.                                                   *)
(***************************************************************************)
N3 == NameSeq[3]

\* what a listed blob may contain
PipeTexts ==
    { <<>>,
      <<N2, NL, "<A", SP, "href", EQ, QT, SP, N1, QT, ">", NL, Outsider, NL, TAB, N2>> }

\* the blobs under the prefix: the first k names, each with some content
Buckets == UNION {[{NameSeq[i] : i \in 1..k} -> PipeTexts] : k \in 0..MaxNodes}

input_vars == <<streaming, args_limit_files, download_workers, parse_workers, bucket>>
graph_vars == <<out_degree, in_counts, in_links>>
ac_vars    == <<ac_finished, ac_waiter, ac_on>>
dl_vars    == <<dl_state, dl_result, get_calls>>
ps_vars    == <<parse_state, parse_text, parse_result>>

\* the state of a run before its first statement
Fresh ==
    /\ pc = "start"
    /\ nodes = <<>>
    /\ nodes_set = {}
    /\ created = FALSE
    /\ out_degree = <<>>
    /\ in_counts = <<>>
    /\ in_links = <<>>
    /\ downloaded_text = <<>>
    /\ parse_futures = <<>>
    /\ handled = 0
    /\ ac_finished = {}
    /\ ac_waiter = <<>>
    /\ ac_on = "none"
    /\ cur = <<>>
    /\ dl_state = [u \in Names |-> "none"]
    /\ dl_result = [u \in Names |-> <<>>]
    /\ get_calls = [u \in Names |-> 0]
    /\ parse_state = [u \in Names |-> "none"]
    /\ parse_text = [u \in Names |-> <<>>]
    /\ parse_result = [u \in Names |-> <<>>]
    /\ parse_done_order = <<>>
    /\ handle_order = <<>>
    /\ parse_early = {}

ParseIdle ==
    /\ p_pc = "idle"
    /\ p_text = <<>>
    /\ p_nodes_set = {}
    /\ p_out = <<>>

\* iterative_pagerank is not called
PagerankIdle ==
    /\ k_pc = "idle"
    /\ k_nodes = <<>>
    /\ k_in_links = <<>>
    /\ k_out_degree = <<>>
    /\ damping = <<0, 1>>
    /\ base = <<0, 1>>
    /\ tol_ratio = <<0, 1>>
    /\ max_iters = 0
    /\ it = 0
    /\ pr = <<>>
    /\ old_pr = <<>>
    /\ deltas = <<>>
    /\ warned = FALSE
    /\ k_result = <<>>
    /\ first_ranking = <<>>

\* main has not come to the ranking
SortIdle ==
    /\ s_pc = "idle"
    /\ s_items = <<>>
    /\ s_top = <<>>

\* the callback threads of the subscriber
Callbacks == 1..MaxCallbacks

\* the subscriber has received no message; the log object does not exist
SubscriberIdle ==
    /\ log_generation = 0
    /\ log_lines = <<>>
    /\ delivered = 0
    /\ cb_pc = [w \in Callbacks |-> "idle"]
    /\ cb_msg = [w \in Callbacks |-> 0]
    /\ cb_data = [w \in Callbacks |-> <<>>]
    /\ attempt = [w \in Callbacks |-> 0]
    /\ generation = [w \in Callbacks |-> 0]
    /\ existing = [w \in Callbacks |-> <<>>]
    /\ upload_calls = [w \in Callbacks |-> 0]
    /\ append_reported = {}
    /\ reported_logged = {}
    /\ acked = {}
    /\ nacked = {}
    /\ foreign_appends = 0

\* no request has arrived
HttpIdle ==
    /\ h_pc = "idle"
    /\ h_service = "hw3"
    /\ h_method = "GET"
    /\ h_path = <<>>
    /\ h_headers = <<>>
    /\ object_present = FALSE
    /\ logger_up = FALSE
    /\ publisher_up = FALSE
    /\ h_status = 0
    /\ h_entries = <<>>
    /\ h_events = <<>>
    /\ h_threads = <<>>
    /\ store_calls = 0

ServicesIdle == SubscriberIdle /\ HttpIdle

Init ==
    /\ streaming \in BOOLEAN
    /\ args_limit_files \in 0..(MaxNodes - 1)
    /\ download_workers \in 1..MaxWorkers
    /\ parse_workers \in 1..MaxWorkers
    /\ bucket \in Buckets
    /\ Fresh
    /\ first_run = <<>>
    /\ ParseIdle
    /\ PagerankIdle
    /\ SortIdle
    /\ ServicesIdle

(***************************************************************************)
(* The pipeline: helpers.                                                  *)
(***************************************************************************)
\* a faulty variant: main passes args.limit_files on as it is
limit_files_as_given == <<args_limit_files>>

\* main: limit_files = args.limit_files if args.limit_files > 0 else None
\* (None is <<>>, an int n is <<n>>)
limit_files == IF args_limit_files > 0 THEN <<args_limit_files>> ELSE <<>>

\* nodes.sort() of list_nodes_from_bucket: the names in ascending order
RECURSIVE SortNames(_)
SortNames(S) ==
    IF S = {} THEN <<>>
    ELSE LET m == CHOOSE n \in S : \A o \in S : Rank(n) <= Rank(o)
         IN  <<m>> \o SortNames(S \ {m})

list_nodes_from_bucket == SortNames(DOMAIN bucket)

\* l[:n]
SliceTo(l, n) ==
    IF n >= 0
    THEN SubSeq(l, 1, IF n < Len(l) THEN n ELSE Len(l))
    ELSE SubSeq(l, 1, IF Len(l) + n > 0 THEN Len(l) + n ELSE 0)

\* if limit_files is not None: nodes = nodes[:limit_files]
Truncate(l, lim) == IF lim = <<>> THEN l ELSE SliceTo(l, lim[1])

Range(f) == {f[i] : i \in DOMAIN f}

\* {u: val for u in nodes}
DictOver(l, val) == [u \in Range(l) |-> val]

\* d[k] = val
DictSet(d, k, val) == [x \in (DOMAIN d) \cup {k} |-> IF x = k THEN val ELSE d[x]]

\* a future whose result() returns or raises without blocking
FutureDone(st) == st \in {"done", "failed"}

\* ThreadPoolExecutor.__exit__ = shutdown(wait=True): every submitted task has run
PoolJoined(state) == \A u \in Names : state[u] = "none" \/ FutureDone(state[u])

\* position of u in a list without repetitions
IndexOf(l, u) == CHOOSE i \in 1..Len(l) : l[i] = u

Running(state) == {u \in Names : state[u] = "running"}

\* ThreadPoolExecutor(max_workers=cap): idle worker threads take the queued tasks
\* in submission order; a task is running from the moment a thread has taken it
Schedule(state, order, cap) ==
    LET free == cap - Cardinality(Running(state))
        ahead(u) == {w \in Range(order) :
                        state[w] = "queued" /\ IndexOf(order, w) < IndexOf(order, u)}
        taken == {u \in Range(order) :
                        state[u] = "queued" /\ Cardinality(ahead(u)) < free}
    IN  [u \in Names |-> IF u \in taken THEN "running" ELSE state[u]]

\* download_as_text is called once by each download task a thread takes
CountCalls(calls, before, after) ==
    [u \in Names |->
        calls[u] + (IF after[u] = "running" /\ before[u] # "running" THEN 1 ELSE 0)]

\* as_completed: the futures it can yield next. Those that had finished when it
\* was called come first, in no particular order; the others in completion order.
AcReady ==
    IF ac_finished # {} THEN ac_finished
    ELSE IF ac_waiter # <<>> THEN {Head(ac_waiter)}
    ELSE {}

AcTake(u) ==
    IF u \in ac_finished
    THEN /\ ac_finished' = ac_finished \ {u}
         /\ ac_waiter' = ac_waiter
    ELSE /\ ac_waiter' = Tail(ac_waiter)
         /\ ac_finished' = ac_finished

\* parse_outgoing_links tabulated over every text a blob of the bucket can hold
\* and every set of node names: each row is <<text, nodes_set, its result>>
ParsedLinks ==
    {<<t, S, parse_outgoing_links(t, S)>> : t \in PipeTexts, S \in SUBSET Names}

\* _parse_one(blob_name, text, nodes_set): outs = parse_outgoing_links(text,
\* nodes_set), read from the table; return blob_name, outs
parse_one(blob_name, text, S) ==
    <<blob_name, (CHOOSE r \in ParsedLinks : r[1] = text /\ r[2] = S)[3]>>

(***************************************************************************)
(* The main thread.                                                        *)
(***************************************************************************)
\* a faulty variant: the check for an empty listing is missing
NoFiles_unchecked(l) == FALSE

\* 'if not nodes'
NoFiles(l) == l = <<>>

\* raise RuntimeError("No files found in the bucket.")
RaiseNoFiles ==
    /\ pc = "start"
    /\ NoFiles(list_nodes_from_bucket)
    /\ pc' = "raised"
    /\ UNCHANGED <<parse_done_order, handle_order, parse_early,
                   input_vars, nodes, nodes_set, created, graph_vars, downloaded_text,
                   parse_futures, handled, ac_vars, cur, dl_vars, ps_vars, first_run,
                   parse_vars, rank_vars, sort_vars, service_vars>>

\* the keys the three graph dicts are created over
GraphKeys(l) == l

\* truncation, nodes_set and the three dicts
Prepare ==
    /\ pc = "start"
    /\ ~NoFiles(list_nodes_from_bucket)
    /\ nodes' = Truncate(list_nodes_from_bucket, limit_files)
    /\ nodes_set' = Range(nodes')
    /\ out_degree' = DictOver(GraphKeys(nodes'), 0)
    /\ in_counts' = DictOver(GraphKeys(nodes'), 0)
    /\ in_links' = DictOver(GraphKeys(nodes'), <<>>)
    /\ created' = TRUE
    /\ pc' = "submit_dl"
    /\ UNCHANGED <<parse_done_order, handle_order, parse_early,
                   input_vars, downloaded_text, parse_futures, handled, ac_vars, cur,
                   dl_vars, ps_vars, first_run, parse_vars, rank_vars, sort_vars, service_vars>>

\* a faulty variant: the downloads are submitted for the whole listing
DownloadList_all == list_nodes_from_bucket

\* 'for u in nodes' of the submit: the blobs a download is submitted for
DownloadList == nodes

\* dl_ex.submit(download_worker, u) for u in nodes
SubmitDownloads ==
    /\ pc = "submit_dl"
    /\ dl_state' = Schedule([u \in Names |->
                                 IF u \in Range(DownloadList) THEN "queued"
                                 ELSE dl_state[u]],
                             DownloadList, download_workers)
    /\ get_calls' = CountCalls(get_calls, dl_state, dl_state')
    /\ pc' = "dl_wait"
    /\ UNCHANGED <<parse_done_order, handle_order, parse_early,
                   input_vars, nodes, nodes_set, created, graph_vars, downloaded_text,
                   parse_futures, handled, ac_vars, cur, dl_result, ps_vars,
                   first_run, parse_vars, rank_vars, sort_vars, service_vars>>

\* where the main thread goes once h of the download futures are handled
AfterDownload(h) ==
    IF h < Len(nodes) THEN "dl_loop"
    ELSE IF ~streaming THEN "dl_exit"
    ELSE IF Len(nodes) = 0 THEN "exit"
    ELSE "collect"

\* where the main thread goes once h of the parse results are aggregated
AfterResult(h) ==
    IF h < Len(nodes) THEN (IF streaming THEN "collect" ELSE "parse_loop")
    ELSE "exit"

\* as_completed(download_futures) / as_completed(futures) is entered
BeginDlLoop ==
    /\ pc = "dl_wait"
    /\ ac_finished' = {u \in Range(nodes) : FutureDone(dl_state[u])}
    /\ ac_waiter' = <<>>
    /\ ac_on' = IF Len(nodes) = 0 THEN "none" ELSE "dl"
    /\ handled' = 0
    /\ pc' = AfterDownload(0)
    /\ UNCHANGED <<parse_done_order, handle_order, parse_early,
                   input_vars, nodes, nodes_set, created, graph_vars, downloaded_text,
                   parse_futures, cur, dl_vars, ps_vars, first_run, parse_vars, rank_vars, sort_vars, service_vars>>

\* a faulty variant: the exception of a failed download is swallowed
Raises_never(st) == FALSE

\* future.result() raises the exception of a task that failed
Raises(st) == st = "failed"

\* a faulty variant: the parse task is submitted with the first node's text
HandOffText_first(u) == dl_result[nodes[1]]

\* the text handed to the parse task of u: 'u, text = dl_future.result()'
HandOffText(u) == dl_result[u]

\* a faulty variant: every parse task is submitted with the last node's text
StoredText_last(u) == downloaded_text[nodes[Len(nodes)]]

\* two-phase: the text the parse task of u is submitted with: downloaded_text[u]
StoredText(u) == downloaded_text[u]

\* streaming: one iteration of 'for dl_future in as_completed(download_futures)'
StreamHandOff(u) ==
    /\ pc = "dl_loop"
    /\ streaming
    /\ u \in AcReady
    /\ AcTake(u)
    /\ IF Raises(dl_state[u])
       THEN /\ pc' = "unwind"
            /\ ac_on' = "none"
            /\ UNCHANGED <<handled, parse_futures, ps_vars>>
       ELSE /\ parse_futures' = Append(parse_futures, u)
            /\ parse_state' = Schedule([parse_state EXCEPT ![u] = "queued"],
                                        parse_futures', parse_workers)
            /\ parse_text' = [parse_text EXCEPT ![u] = HandOffText(u)]
            /\ handled' = IF handled + 1 < Len(nodes) THEN handled + 1 ELSE 0
            /\ pc' = AfterDownload(handled + 1)
            /\ ac_on' = IF handled + 1 < Len(nodes) THEN "dl" ELSE "none"
            /\ UNCHANGED parse_result
    /\ UNCHANGED <<parse_done_order, handle_order, parse_early,
                   input_vars, nodes, nodes_set, created, graph_vars, downloaded_text,
                   cur, dl_vars, first_run, parse_vars, rank_vars, sort_vars, service_vars>>

\* a faulty variant: out_degree[u] = len(outs) - 1, the index of the last link
OutDegreeOf_last_index(outs) == Len(outs) - 1

\* a faulty variant: out_degree[u] = len(set(outs))
OutDegreeOf_distinct(outs) == Cardinality(Range(outs))

\* out_degree[u] = len(outs)
OutDegreeOf(outs) == Len(outs)

\* 'out_degree[u] = len(outs)' and the entry into 'for v in outs'
StartAggregate(u, outs) ==
    /\ out_degree' = DictSet(out_degree, u, OutDegreeOf(outs))
    /\ handle_order' = Append(handle_order, u)
    /\ IF outs = <<>>
       THEN /\ cur' = <<>>
            /\ handled' = handled + 1
            /\ pc' = AfterResult(handled + 1)
       ELSE /\ cur' = <<u, outs, 1>>
            /\ handled' = handled
            /\ pc' = "agg"
    /\ UNCHANGED <<in_counts, in_links>>

\* streaming: '_, outs = parse_future.result()' for the next entry of parse_futures
StreamCollect ==
    /\ pc = "collect"
    /\ LET u == parse_futures[handled + 1]
       IN  /\ FutureDone(parse_state[u])
           /\ StartAggregate(u, parse_result[u])
    /\ UNCHANGED <<parse_done_order, parse_early,
                   input_vars, nodes, nodes_set, created, downloaded_text, parse_futures,
                   ac_vars, dl_vars, ps_vars, first_run, parse_vars, rank_vars, sort_vars, service_vars>>

\* in_counts[v] += 1
IncCount(d, v) == [d EXCEPT ![v] = @ + 1]

\* a faulty variant: u is appended only if in_links[v] does not hold it yet
AppendLink_once(d, v, u) ==
    IF u \in Range(d[v]) THEN d ELSE [d EXCEPT ![v] = Append(@, u)]

\* a faulty variant: in_links[v].insert(0, u)
AppendLink_front(d, v, u) == [d EXCEPT ![v] = <<u>> \o @]

\* in_links[v].append(u)
AppendLink(d, v, u) == [d EXCEPT ![v] = Append(@, u)]

AggInc ==
    /\ pc = "agg"
    /\ LET v == cur[2][cur[3]]
       IN  IF v \in DOMAIN in_counts
           THEN /\ in_counts' = IncCount(in_counts, v)
                /\ pc' = "agg_append"
           ELSE /\ pc' = "keyerror"
                /\ UNCHANGED in_counts
    /\ UNCHANGED <<parse_done_order, handle_order, parse_early,
                   input_vars, nodes, nodes_set, created, out_degree, in_links,
                   downloaded_text, parse_futures, handled, ac_vars, cur, dl_vars,
                   ps_vars, first_run, parse_vars, rank_vars, sort_vars, service_vars>>

AggAppend ==
    /\ pc = "agg_append"
    /\ LET u == cur[1]
           v == cur[2][cur[3]]
       IN  /\ in_links' = AppendLink(in_links, v, u)
           /\ IF cur[3] < Len(cur[2])
              THEN /\ cur' = <<u, cur[2], cur[3] + 1>>
                   /\ pc' = "agg"
                   /\ UNCHANGED handled
              ELSE /\ cur' = <<>>
                   /\ handled' = handled + 1
                   /\ pc' = AfterResult(handled + 1)
    /\ UNCHANGED <<parse_done_order, handle_order, parse_early,
                   input_vars, nodes, nodes_set, created, out_degree, in_counts,
                   downloaded_text, parse_futures, ac_vars, dl_vars, ps_vars, first_run,
                   parse_vars, rank_vars, sort_vars, service_vars>>

\* two-phase: one iteration of 'for f in as_completed(futures)'
TwoPhaseStore(u) ==
    /\ pc = "dl_loop"
    /\ ~streaming
    /\ u \in AcReady
    /\ AcTake(u)
    /\ IF Raises(dl_state[u])
       THEN /\ pc' = "unwind"
            /\ ac_on' = "none"
            /\ UNCHANGED <<handled, downloaded_text>>
       ELSE /\ downloaded_text' = DictSet(downloaded_text, u, dl_result[u])
            /\ handled' = handled + 1
            /\ pc' = AfterDownload(handled + 1)
            /\ ac_on' = IF handled + 1 < Len(nodes) THEN "dl" ELSE "none"
    /\ UNCHANGED <<parse_done_order, handle_order, parse_early,
                   input_vars, nodes, nodes_set, created, graph_vars, parse_futures,
                   cur, dl_vars, ps_vars, first_run, parse_vars, rank_vars, sort_vars, service_vars>>

\* two-phase: the end of 'with ThreadPoolExecutor(...) as dl_ex'
ExitDlPool ==
    /\ pc = "dl_exit"
    /\ PoolJoined(dl_state)
    /\ pc' = "submit_parse"
    /\ UNCHANGED <<parse_done_order, handle_order, parse_early,
                   input_vars, nodes, nodes_set, created, graph_vars, downloaded_text,
                   parse_futures, handled, ac_vars, cur, dl_vars, ps_vars, first_run,
                   parse_vars, rank_vars, sort_vars, service_vars>>

\* two-phase: parse_ex.submit(_parse_one, u, downloaded_text[u], nodes_set) for u in nodes
SubmitParse ==
    /\ pc = "submit_parse"
    /\ parse_state' = Schedule([u \in Names |->
                                    IF u \in Range(nodes) THEN "queued" ELSE parse_state[u]],
                                nodes, parse_workers)
    /\ parse_text' = [u \in Names |->
                         IF u \in Range(nodes) THEN StoredText(u) ELSE parse_text[u]]
    /\ parse_futures' = nodes
    /\ pc' = "parse_wait"
    /\ UNCHANGED <<parse_done_order, handle_order, parse_early,
                   input_vars, nodes, nodes_set, created, graph_vars, downloaded_text,
                   handled, ac_vars, cur, dl_vars, parse_result, first_run, parse_vars, rank_vars, sort_vars, service_vars>>

\* two-phase: as_completed(parse_futures) is entered
BeginParseLoop ==
    /\ pc = "parse_wait"
    /\ ac_finished' = {u \in Range(nodes) : FutureDone(parse_state[u])}
    /\ parse_early' = {u \in Range(nodes) : FutureDone(parse_state[u])}
    /\ ac_waiter' = <<>>
    /\ ac_on' = IF Len(nodes) = 0 THEN "none" ELSE "parse"
    /\ handled' = 0
    /\ pc' = AfterResult(0)
    /\ UNCHANGED <<parse_done_order, handle_order,
                   input_vars, nodes, nodes_set, created, graph_vars, downloaded_text,
                   parse_futures, cur, dl_vars, ps_vars, first_run, parse_vars, rank_vars, sort_vars, service_vars>>

\* two-phase: one iteration of 'for pf in as_completed(parse_futures)'
TwoPhaseCollect(u) ==
    /\ pc = "parse_loop"
    /\ u \in AcReady
    /\ AcTake(u)
    /\ ac_on' = ac_on
    /\ StartAggregate(u, parse_result[u])
    /\ UNCHANGED <<parse_done_order, parse_early,
                   input_vars, nodes, nodes_set, created, downloaded_text, parse_futures,
                   dl_vars, ps_vars, first_run, parse_vars, rank_vars, sort_vars, service_vars>>

\* a faulty variant: 'return' from inside a loop, the pools not waited for
ExitPools_early ==
    /\ pc \in {"dl_loop", "collect", "parse_loop", "exit"}
    /\ pc' = "returned"
    /\ UNCHANGED <<parse_done_order, handle_order, parse_early,
                   input_vars, nodes, nodes_set, created, graph_vars, downloaded_text,
                   parse_futures, handled, ac_vars, cur, dl_vars, ps_vars, first_run,
                   parse_vars, rank_vars, sort_vars, service_vars>>

\* the end of the with blocks on the normal path, then 'return'
ExitPools ==
    /\ pc = "exit"
    /\ PoolJoined(dl_state)
    /\ PoolJoined(parse_state)
    /\ pc' = "returned"
    /\ UNCHANGED <<parse_done_order, handle_order, parse_early,
                   input_vars, nodes, nodes_set, created, graph_vars, downloaded_text,
                   parse_futures, handled, ac_vars, cur, dl_vars, ps_vars, first_run,
                   parse_vars, rank_vars, sort_vars, service_vars>>

\* an exception leaves the with blocks: each __exit__ waits for its pool
Unwind ==
    /\ pc = "unwind"
    /\ PoolJoined(dl_state)
    /\ PoolJoined(parse_state)
    /\ pc' = "failed"
    /\ UNCHANGED <<parse_done_order, handle_order, parse_early,
                   input_vars, nodes, nodes_set, created, graph_vars, downloaded_text,
                   parse_futures, handled, ac_vars, cur, dl_vars, ps_vars, first_run,
                   parse_vars, rank_vars, sort_vars, service_vars>>

(***************************************************************************)
(* The worker threads of dl_ex and parse_ex.                               *)
(***************************************************************************)
\* a completion is reported to the waiter as_completed installed, if any
Notify(pool, u) ==
    ac_waiter' = IF ac_on = pool THEN Append(ac_waiter, u) ELSE ac_waiter

\* _download_one returns (blob_name, text); the thread takes the next download
DlDone(u) ==
    /\ dl_state[u] = "running"
    /\ dl_state' = Schedule([dl_state EXCEPT ![u] = "done"], nodes, download_workers)
    /\ get_calls' = CountCalls(get_calls, dl_state, dl_state')
    /\ dl_result' = [dl_result EXCEPT ![u] = bucket[u]]
    /\ Notify("dl", u)
    /\ UNCHANGED <<parse_done_order, handle_order, parse_early,
                   input_vars, pc, nodes, nodes_set, created, graph_vars, downloaded_text,
                   parse_futures, handled, ac_finished, ac_on, cur, ps_vars,
                   first_run, parse_vars, rank_vars, sort_vars, service_vars>>

\* download_as_text raises; the thread takes the next download
DlFail(u) ==
    /\ dl_state[u] = "running"
    /\ dl_state' = Schedule([dl_state EXCEPT ![u] = "failed"], nodes, download_workers)
    /\ get_calls' = CountCalls(get_calls, dl_state, dl_state')
    /\ Notify("dl", u)
    /\ UNCHANGED <<parse_done_order, handle_order, parse_early,
                   input_vars, pc, nodes, nodes_set, created, graph_vars, downloaded_text,
                   parse_futures, handled, ac_finished, ac_on, cur, dl_result,
                   ps_vars, first_run, parse_vars, rank_vars, sort_vars, service_vars>>

\* _parse_one returns (blob_name, outs); the thread takes the next parse task
ParseDone(u) ==
    /\ parse_state[u] = "running"
    /\ parse_state' = Schedule([parse_state EXCEPT ![u] = "done"],
                               parse_futures, parse_workers)
    /\ parse_result' = [parse_result EXCEPT ![u] = parse_one(u, parse_text[u], nodes_set)[2]]
    /\ parse_done_order' = Append(parse_done_order, u)
    /\ Notify("parse", u)
    /\ UNCHANGED <<handle_order, parse_early,
                   input_vars, pc, nodes, nodes_set, created, graph_vars, downloaded_text,
                   parse_futures, handled, ac_finished, ac_on, cur, dl_vars, parse_text,
                   first_run, parse_vars, rank_vars, sort_vars, service_vars>>

MainStep ==
    \/ RaiseNoFiles
    \/ Prepare
    \/ SubmitDownloads
    \/ BeginDlLoop
    \/ \E u \in Names : StreamHandOff(u)
    \/ StreamCollect
    \/ AggInc
    \/ AggAppend
    \/ \E u \in Names : TwoPhaseStore(u)
    \/ ExitDlPool
    \/ SubmitParse
    \/ BeginParseLoop
    \/ \E u \in Names : TwoPhaseCollect(u)
    \/ ExitPools
    \/ Unwind

WorkerStep ==
    \/ \E u \in Names : DlDone(u)
    \/ \E u \in Names : DlFail(u)
    \/ \E u \in Names : ParseDone(u)

Next == MainStep \/ WorkerStep

Spec == Init /\ [][Next]_vars

(***************************************************************************)
(* The caller runs the pipeline a second time on the same bucket, with the *)
(* same limit and pool sizes, in either mode (main chooses the mode by     *)
(* args.streaming).  first_run keeps what the first call returned, the     *)
(* in_links lists as multisets.                                            *)
(***************************************************************************)
CountOf(l, x) == Cardinality({i \in DOMAIN l : l[i] = x})

\* a list as a multiset: element -> number of occurrences
AsBag(l) == [x \in Range(l) |-> CountOf(l, x)]

Returned == <<streaming, nodes, out_degree, in_counts,
              [v \in DOMAIN in_links |-> AsBag(in_links[v])]>>

Rerun ==
    /\ pc = "returned"
    /\ first_run = <<>>
    /\ first_run' = Returned
    /\ streaming' \in BOOLEAN
    /\ pc' = "start"
    /\ nodes' = <<>>
    /\ nodes_set' = {}
    /\ created' = FALSE
    /\ out_degree' = <<>>
    /\ in_counts' = <<>>
    /\ in_links' = <<>>
    /\ downloaded_text' = <<>>
    /\ parse_futures' = <<>>
    /\ handled' = 0
    /\ ac_finished' = {}
    /\ ac_waiter' = <<>>
    /\ ac_on' = "none"
    /\ cur' = <<>>
    /\ dl_state' = [u \in Names |-> "none"]
    /\ dl_result' = [u \in Names |-> <<>>]
    /\ get_calls' = [u \in Names |-> 0]
    /\ parse_state' = [u \in Names |-> "none"]
    /\ parse_text' = [u \in Names |-> <<>>]
    /\ parse_result' = [u \in Names |-> <<>>]
    /\ parse_done_order' = <<>>
    /\ handle_order' = <<>>
    /\ parse_early' = {}
    /\ UNCHANGED <<args_limit_files, download_workers, parse_workers, bucket, parse_vars, rank_vars, sort_vars, service_vars>>

NextTwoRuns == Next \/ Rerun

SpecTwoRuns == Init /\ [][NextTwoRuns]_vars

\* every thread that can take a step eventually takes one, and every started
\* download_as_text call eventually returns or raises
FairSpec == Spec /\ WF_vars(Next)

(***************************************************************************)
(* A single call of parse_outgoing_links on a text and a node set.         *)
(***************************************************************************)
InitOneCall ==
    /\ InitParse
    /\ streaming = FALSE
    /\ args_limit_files = 0
    /\ download_workers = 1
    /\ parse_workers = 1
    /\ bucket = <<>>
    /\ Fresh
    /\ first_run = <<>>
    /\ PagerankIdle
    /\ SortIdle
    /\ ServicesIdle

NextOneCall == ParseCall /\ UNCHANGED <<pipe_vars, rank_vars, sort_vars, service_vars>>

SpecParse == InitOneCall /\ [][NextOneCall]_vars

(***************************************************************************)
(* iterative_pagerank (pagerank.py).                                       *)
(*                                                                         *)
(* A float is modelled by a pair <<lo, hi>> of integers: the value lies    *)
(* between lo / Scale and hi / Scale. Every operation rounds lo down and   *)
(* hi up, so the pair always encloses the value the code computes; a       *)
(* comparison whose operands overlap can go either way.                    *)
(***************************************************************************)
Scale == 10 ^ 7

MaxGraph == 2
MaxIters == 2

FloorDiv(a, b) == a \div b
CeilDiv(a, b) == (a + b - 1) \div b

\* the float nearest to the fraction num / den
FromRat(r) == <<FloorDiv(r[1] * Scale, r[2]), CeilDiv(r[1] * Scale, r[2])>>

Zero == <<0, 0>>
One == <<Scale, Scale>>

\* x + y
Add(x, y) == <<x[1] + y[1], x[2] + y[2]>>

\* x / c for an int c > 0
DivInt(x, c) == <<FloorDiv(x[1], c), CeilDiv(x[2], c)>>

\* r * x for a fraction r >= 0
MulRat(r, x) == <<FloorDiv(r[1] * x[1], r[2]), CeilDiv(r[1] * x[2], r[2])>>

\* abs(x - y)
AbsDiff(x, y) ==
    IF x[1] >= y[2] THEN <<x[1] - y[2], x[2] - y[1]>>
    ELSE IF y[1] >= x[2] THEN <<y[1] - x[2], y[2] - x[1]>>
    ELSE <<0, IF x[2] - y[1] > y[2] - x[1] THEN x[2] - y[1] ELSE y[2] - x[1]>>

\* the values 'x < y' can take
Less(x, y) == {b \in BOOLEAN : IF b THEN x[1] < y[2] ELSE x[2] >= y[1]}

\* the values 'x > y' can take
Greater(x, y) == Less(y, x)

\* d.get(k, default)
Get(d, k, default) == IF k \in DOMAIN d THEN d[k] ELSE default

\* the sum of f(l[1]), f(l[2]), ... accumulated from 0.0
RECURSIVE SumList(_, _)
SumList(l, f) ==
    IF l = <<>> THEN Zero
    ELSE Add(SumList(SubSeq(l, 1, Len(l) - 1), f), f[l[Len(l)]])

\* sum(pr.values())
SumValues(l, scores) == SumList(l, scores)

\* sum_tol = 1e-3
sum_tol == FromRat(<<1, 1000>>)

\* n = len(nodes)
n == Len(k_nodes)

\* pr = {u: 1.0 / n for u in nodes}
InitialScores == [u \in Range(k_nodes) |-> DivInt(One, n)]

\* teleport = base / n
teleport == DivInt(FromRat(base), n)

\* a faulty variant: the scores of the dangling nodes are lost
dangling_mass_none(scores) == Zero

\* dangling_mass: the sum of pr[u] over the nodes u with out_degree.get(u, 0) == 0
dangling_mass(scores) ==
    SumList(k_nodes,
            [u \in Range(k_nodes) |->
                IF Get(k_out_degree, u, 0) = 0 THEN scores[u] ELSE Zero])

dangling_share(scores) == DivInt(dangling_mass(scores), n)

\* a faulty variant: a source passes its whole score along every link
Contribution_whole(scores, t) ==
    IF Get(k_out_degree, t, 0) > 0 THEN scores[t] ELSE Zero

\* a faulty variant: if c >= 0
Divides_unless_negative(c) == c >= 0

\* 'if c > 0': the division pr[t] / c is performed
Divides(c) == c > 0

\* what the in-link from t adds to s: pr[t] / c if c > 0
Contribution(scores, t) ==
    LET c == Get(k_out_degree, t, 0)
    IN  IF Divides(c) THEN DivInt(scores[t], c) ELSE Zero

\* some pr[t] / c of the update is performed with c = 0: ZeroDivisionError
ZeroDivision ==
    \E a \in Range(k_nodes) :
        \E t \in Range(Get(k_in_links, a, <<>>)) :
            LET c == Get(k_out_degree, t, 0) IN Divides(c) /\ c = 0

\* a faulty variant: only the first in-link of a node is counted
InLinkSum_first(scores, a) ==
    LET srcs == Get(k_in_links, a, <<>>)
    IN  IF srcs = <<>> THEN Zero ELSE Contribution(scores, srcs[1])

\* s: the sum over 'for t in in_links.get(a, [])'
InLinkSum(scores, a) ==
    LET srcs == Get(k_in_links, a, <<>>)
    IN  SumList([i \in 1..Len(srcs) |-> i],
                [i \in 1..Len(srcs) |-> Contribution(scores, srcs[i])])

\* new_pr[a] = teleport + damping * (s + dangling_share)
NewScore(scores, a) ==
    Add(teleport, MulRat(damping, Add(InLinkSum(scores, a), dangling_share(scores))))

new_pr(scores) == [a \in Range(k_nodes) |-> NewScore(scores, a)]

\* delta: the sum of abs(new_pr[u] - pr[u]) over the nodes
Delta(new, scores) ==
    SumList(k_nodes, [u \in Range(k_nodes) |-> AbsDiff(new[u], scores[u])])

\* ---- the arguments of a call ----
GraphNameSeq == <<"A", "B", "C", "D">>

\* the graph of test_pagerank_small_graph_basic_properties
TestGraph ==
    [nodes |-> <<"A", "B", "C", "D">>,
     out_degree |-> [A |-> 2, B |-> 1, C |-> 1, D |-> 0],
     in_links |-> [A |-> <<"C">>, B |-> <<"A">>, C |-> <<"A", "B", "D">>, D |-> <<>>]]

\* a graph with a repeated link, as the pipeline builds from a page that names
\* the same target twice
RepeatGraph ==
    [nodes |-> <<"A", "B">>,
     out_degree |-> [A |-> 3, B |-> 0],
     in_links |-> [A |-> <<"A">>, B |-> <<"A", "A">>]]

\* a graph whose dicts do not match: B has out_degree 0 and C has none on record,
\* both are listed as sources; B has no in_links entry
LooseGraph ==
    [nodes |-> <<"A", "B", "C">>,
     out_degree |-> [A |-> 1, B |-> 0],
     in_links |-> [A |-> <<"B", "C">>, C |-> <<"A", "C", "B">>]]

GraphRank(u) == CHOOSE i \in 1..Len(GraphNameSeq) : GraphNameSeq[i] = u

\* the sources of a's in-links among the edges E, in listing order
RECURSIVE SourcesOf(_, _, _)
SourcesOf(E, a, k) ==
    IF k = 0 THEN <<>>
    ELSE SourcesOf(E, a, k - 1) \o
         (IF <<GraphNameSeq[k], a>> \in E THEN <<GraphNameSeq[k]>> ELSE <<>>)

\* the graph over the first k names with the set of edges E
GraphOf(k, E) ==
    LET V == {GraphNameSeq[i] : i \in 1..k}
    IN  [nodes |-> [i \in 1..k |-> GraphNameSeq[i]],
         out_degree |-> [t \in V |-> Cardinality({a \in V : <<t, a>> \in E})],
         in_links |-> [a \in V |-> SourcesOf(E, a, k)]]

Graphs ==
    {TestGraph, RepeatGraph, LooseGraph} \cup
    UNION {{GraphOf(k, E) : E \in SUBSET ({GraphNameSeq[i] : i \in 1..k}
                                            \X {GraphNameSeq[i] : i \in 1..k})}
           : k \in 0..MaxGraph}

\* defaults of iterative_pagerank
DefaultDamping == <<17, 20>>     \* 0.85
DefaultBase == <<3, 20>>         \* 0.15
DefaultTol == <<1, 200>>         \* 0.005
DefaultMaxIters == 200

\* <<damping, base>>
Factors == {<<DefaultDamping, DefaultBase>>, <<<<1, 2>>, <<1, 2>>>>,
            <<DefaultDamping, <<1, 2>>>>}

Tolerances == {DefaultTol, <<1, 4>>}

Caps == (0..MaxIters) \cup {DefaultMaxIters}

InitPagerank ==
    /\ k_pc = "call"
    /\ \E g \in Graphs :
          /\ k_nodes = g.nodes
          /\ k_in_links = g.in_links
          /\ k_out_degree = g.out_degree
    /\ \E f \in Factors : damping = f[1] /\ base = f[2]
    /\ tol_ratio \in Tolerances
    /\ max_iters \in Caps
    /\ it = 0
    /\ pr = <<>>
    /\ old_pr = <<>>
    /\ deltas = <<>>
    /\ warned = FALSE
    /\ k_result = <<>>
    /\ first_ranking = <<>>

k_args == <<k_nodes, k_in_links, k_out_degree, damping, base, tol_ratio, max_iters>>

\* if n == 0: return {}, 0
ReturnEmpty ==
    /\ k_pc = "call"
    /\ n = 0
    /\ k_result' = <<<<>>, 0>>
    /\ k_pc' = "empty"
    /\ UNCHANGED <<k_args, it, pr, old_pr, deltas, warned, first_ranking>>

\* the uniform initial scores; the for loop is entered
Initialize ==
    /\ k_pc = "call"
    /\ n # 0
    /\ pr' = InitialScores
    /\ k_pc' = "loop"
    /\ UNCHANGED <<k_args, it, old_pr, deltas, warned, k_result, first_ranking>>

\* a faulty variant: range(1, max_iters + 2)
LoopGoesOn_once_more(i) == i < max_iters + 1

\* 'for it in range(1, max_iters + 1)': there is a next iteration after i of them
LoopGoesOn(i) == i < max_iters

\* abs(sum(pr.values()) - 1.0) > sum_tol
SumIsOff(scores) == Greater(AbsDiff(SumValues(k_nodes, scores), One), sum_tol)

\* one pass of the loop body: steps 1) to 5)
Iterate ==
    /\ k_pc = "loop"
    /\ LoopGoesOn(it)
    /\ IF ZeroDivision
       THEN /\ k_pc' = "zero_division"
            /\ it' = it + 1
            /\ UNCHANGED <<pr, old_pr, deltas, warned, k_result>>
       ELSE \E new \in {new_pr(pr)} : \E delta \in {Delta(new, pr)} :
                /\ it' = it + 1
                /\ old_pr' = pr
                /\ pr' = new
                /\ deltas' = Append(deltas, delta)
                /\ \E stop \in Less(delta, FromRat(tol_ratio)) :
                      IF stop
                      THEN /\ warned' \in SumIsOff(new)
                           /\ k_result' = <<new, it + 1>>
                           /\ k_pc' = "converged"
                      ELSE /\ k_pc' = "loop"
                           /\ UNCHANGED <<warned, k_result>>
    /\ UNCHANGED <<k_args, first_ranking>>

\* the loop is over: return pr, max_iters
ReturnExhausted ==
    /\ k_pc = "loop"
    /\ ~LoopGoesOn(it)
    /\ k_result' = <<pr, max_iters>>
    /\ k_pc' = "exhausted"
    /\ UNCHANGED <<k_args, it, pr, old_pr, deltas, warned, first_ranking>>

PagerankStep == ReturnEmpty \/ Initialize \/ Iterate \/ ReturnExhausted

InitOneRanking ==
    /\ InitPagerank
    /\ streaming = FALSE
    /\ args_limit_files = 0
    /\ download_workers = 1
    /\ parse_workers = 1
    /\ bucket = <<>>
    /\ Fresh
    /\ first_run = <<>>
    /\ ParseIdle
    /\ SortIdle
    /\ ServicesIdle

NextPagerank == PagerankStep /\ UNCHANGED <<pipe_vars, parse_vars, sort_vars, service_vars>>

SpecPagerank == InitOneRanking /\ [][NextPagerank]_vars

\* the call runs on until it returns
FairPagerank == SpecPagerank /\ WF_vars(NextPagerank)

\* ---- a second call on the same graph, the in_links lists in another order ----
\* the lists with the entries of l in any order
Reorderings(l) == {m \in [1..Len(l) -> Range(l)] : AsBag(m) = AsBag(l)}

\* the in_links dicts equal to d as multisets per node
ReorderedLinks(d) ==
    {e \in [DOMAIN d -> UNION {Reorderings(d[a]) : a \in DOMAIN d}] :
        \A a \in DOMAIN d : e[a] \in Reorderings(d[a])}

RankingReturned == k_pc \in {"empty", "converged", "exhausted"}

\* the caller keeps what the call returned and calls again with the same nodes,
\* out_degree and parameters and with reordered in_links lists
CallReordered ==
    /\ RankingReturned
    /\ first_ranking = <<>>
    /\ first_ranking' = [in_links |-> k_in_links, result |-> k_result,
                         deltas |-> deltas]
    /\ k_in_links' \in ReorderedLinks(k_in_links)
    /\ k_pc' = "call"
    /\ it' = 0
    /\ pr' = <<>>
    /\ old_pr' = <<>>
    /\ deltas' = <<>>
    /\ warned' = FALSE
    /\ k_result' = <<>>
    /\ UNCHANGED <<k_nodes, k_out_degree, damping, base, tol_ratio, max_iters>>

NextTwoRankings ==
    (PagerankStep \/ CallReordered) /\ UNCHANGED <<pipe_vars, parse_vars, sort_vars, service_vars>>

SpecTwoRankings == InitOneRanking /\ [][NextTwoRankings]_vars

(***************************************************************************)
(* The ranking printed by main: sorted(pr.items(), key=lambda x: x[1],     *)
(* reverse=True)[:5]. A score is an int here: only its order matters.      *)
(***************************************************************************)
MaxPages == 6
MaxScore == 2

\* the number of pairs main prints
TopCount == 5

PageSeq == <<"p1", "p2", "p3", "p4", "p5", "p6", "p7", "p8">>

\* pr.items() of the dict new_pr, filled by 'for a in nodes': one pair per node,
\* in the order of the sorted listing
ItemLists ==
    UNION {{[i \in 1..k |-> <<PageSeq[i], sc[i]>>] : sc \in [1..k -> 0..MaxScore]}
           : k \in 0..MaxPages}

\* a faulty variant: an item stays ahead of higher-scored items only (what sorting
\* upwards and reversing the result does)
StaysAhead_higher_only(y, x) == y[2] > x[2]

\* reverse=True with a stable sort: y stays ahead of the later item x unless x's
\* key is greater
StaysAhead(y, x) == ~(x[2] > y[2])

\* the later item x put into the list l, which is in order, behind the items
\* that stay ahead of it
RECURSIVE Insert(_, _)
Insert(l, x) ==
    IF l # <<>> /\ ~StaysAhead(l[Len(l)], x)
    THEN Append(Insert(SubSeq(l, 1, Len(l) - 1), x), l[Len(l)])
    ELSE Append(l, x)

\* sorted(items, key=lambda x: x[1], reverse=True)
RECURSIVE sorted_reverse(_)
sorted_reverse(items) ==
    IF items = <<>> THEN <<>>
    ELSE Insert(sorted_reverse(SubSeq(items, 1, Len(items) - 1)), items[Len(items)])

InitRanking ==
    /\ s_pc = "rank"
    /\ s_items \in ItemLists
    /\ s_top = <<>>

\* the list the 'for' of '=== PageRank Top 5 ===' runs over
PrintTop ==
    /\ s_pc = "rank"
    /\ s_top' = SliceTo(sorted_reverse(s_items), TopCount)
    /\ s_pc' = "printed"
    /\ UNCHANGED s_items

InitOneTop ==
    /\ InitRanking
    /\ streaming = FALSE
    /\ args_limit_files = 0
    /\ download_workers = 1
    /\ parse_workers = 1
    /\ bucket = <<>>
    /\ Fresh
    /\ first_run = <<>>
    /\ ParseIdle
    /\ PagerankIdle
    /\ ServicesIdle

NextTop == PrintTop /\ UNCHANGED <<pipe_vars, parse_vars, rank_vars, service_vars>>

SpecTop == InitOneTop /\ [][NextTop]_vars

(***************************************************************************)
(* hw3/subscriber.py: callback runs on the threads of the streaming pull,  *)
(* one message each; append_to_gcs_txt appends a line to the one log       *)
(* object by read, extend and upload with if_generation_match. A line is   *)
(* modelled by the id of its message.                                      *)
(***************************************************************************)
\* max_retries: int = 8
DefaultMaxRetries == 8

\* the messages Service 1 publishes: a forbidden country, another error
Messages ==
    {[error_type |-> "FORBIDDEN_COUNTRY", country |-> "iran"],
     [error_type |-> "FORBIDDEN_COUNTRY", country |-> ""],
     [error_type |-> "NOT_FOUND", country |-> ""]}

\* if error_type == "FORBIDDEN_COUNTRY" and country
IsForbidden(data) == data.error_type = "FORBIDDEN_COUNTRY" /\ data.country # ""

\* a message is handed to an idle thread: callback up to the call of
\* append_to_gcs_txt and the first 'for attempt in range(1, max_retries + 1)'
Receive(w) ==
    /\ cb_pc[w] = "idle"
    /\ delivered < MaxMessages
    /\ delivered' = delivered + 1
    /\ cb_msg' = [cb_msg EXCEPT ![w] = delivered + 1]
    /\ \E data \in Messages :
          /\ cb_data' = [cb_data EXCEPT ![w] = data]
          /\ IF IsForbidden(data) /\ DefaultMaxRetries >= 1
             THEN /\ cb_pc' = [cb_pc EXCEPT ![w] = "reload"]
                  /\ attempt' = [attempt EXCEPT ![w] = 1]
             ELSE /\ cb_pc' = [cb_pc EXCEPT ![w] = "ack"]
                  /\ attempt' = [attempt EXCEPT ![w] = 0]
    /\ generation' = [generation EXCEPT ![w] = 0]
    /\ existing' = [existing EXCEPT ![w] = <<>>]
    /\ upload_calls' = [upload_calls EXCEPT ![w] = 0]
    /\ UNCHANGED <<foreign_appends, log_generation, log_lines, append_reported,
                   reported_logged, acked, nacked>>

\* blob.reload(); generation = blob.generation. It raises when the object does
\* not exist: generation = 0, existing = ""
Reload(w) ==
    /\ cb_pc[w] = "reload"
    /\ IF log_generation = 0
       THEN /\ generation' = [generation EXCEPT ![w] = 0]
            /\ existing' = [existing EXCEPT ![w] = <<>>]
            /\ cb_pc' = [cb_pc EXCEPT ![w] = "upload"]
       ELSE /\ generation' = [generation EXCEPT ![w] = log_generation]
            /\ cb_pc' = [cb_pc EXCEPT ![w] = "download"]
            /\ UNCHANGED existing
    /\ UNCHANGED <<foreign_appends, log_generation, log_lines, delivered, cb_msg, cb_data,
                   attempt, upload_calls, append_reported, reported_logged, acked, nacked>>

\* existing = blob.download_as_text(): the content of the generation reloaded.
\* If the object changed since the reload, the download raises (that generation
\* is gone) or returns the content of the live object.
Download(w) ==
    /\ cb_pc[w] = "download"
    /\ \E raises \in (IF generation[w] = log_generation THEN {FALSE} ELSE BOOLEAN) :
          IF raises
          THEN /\ generation' = [generation EXCEPT ![w] = 0]
               /\ existing' = [existing EXCEPT ![w] = <<>>]
          ELSE /\ existing' = [existing EXCEPT ![w] = log_lines]
               /\ UNCHANGED generation
    /\ cb_pc' = [cb_pc EXCEPT ![w] = "upload"]
    /\ UNCHANGED <<foreign_appends, log_generation, log_lines, delivered, cb_msg, cb_data,
                   attempt, upload_calls, append_reported, reported_logged, acked, nacked>>

\* a faulty variant: the upload is not conditional
GenerationMatches_unchecked(w) == TRUE

\* if_generation_match=generation: the object store accepts the upload only if
\* the live generation is the given one (0: the object does not exist)
GenerationMatches(w) == log_generation = generation[w]

\* 'for attempt in range(1, max_retries + 1)' is at its last value
LastAttempt(w) == attempt[w] >= DefaultMaxRetries

\* updated = existing + new_line; blob.upload_from_string(updated, ...,
\* if_generation_match=generation): 'Appended to (safe)' and return, or
\* PreconditionFailed and the next attempt, or after the last attempt 'Too much
\* contention' and return
Upload(w) ==
    /\ cb_pc[w] = "upload"
    /\ upload_calls' = [upload_calls EXCEPT ![w] = @ + 1]
    /\ IF GenerationMatches(w)
       THEN /\ log_lines' = Append(existing[w], cb_msg[w])
            /\ log_generation' = log_generation + 1
            /\ append_reported' = append_reported \cup {cb_msg[w]}
            /\ cb_pc' = [cb_pc EXCEPT ![w] = "ack"]
            /\ UNCHANGED attempt
       ELSE /\ IF LastAttempt(w)
               THEN /\ cb_pc' = [cb_pc EXCEPT ![w] = "ack"]
                    /\ UNCHANGED attempt
               ELSE /\ cb_pc' = [cb_pc EXCEPT ![w] = "reload"]
                    /\ attempt' = [attempt EXCEPT ![w] = @ + 1]
            /\ UNCHANGED <<log_lines, log_generation, append_reported>>
    /\ UNCHANGED <<foreign_appends, delivered, cb_msg, cb_data, generation, existing,
                   reported_logged, acked, nacked>>

\* upload_from_string raises something else than PreconditionFailed: the
\* exception leaves append_to_gcs_txt and callback catches it
UploadRaises(w) ==
    /\ cb_pc[w] = "upload"
    /\ upload_calls' = [upload_calls EXCEPT ![w] = @ + 1]
    /\ cb_pc' = [cb_pc EXCEPT ![w] = "nack"]
    /\ UNCHANGED <<foreign_appends, log_generation, log_lines, delivered, cb_msg, cb_data,
                   attempt, generation, existing, append_reported, reported_logged, acked,
                   nacked>>

\* callback returns: its locals are gone and the thread is free
Leave(w) ==
    /\ cb_pc' = [cb_pc EXCEPT ![w] = "idle"]
    /\ cb_msg' = [cb_msg EXCEPT ![w] = 0]
    /\ cb_data' = [cb_data EXCEPT ![w] = <<>>]
    /\ attempt' = [attempt EXCEPT ![w] = 0]
    /\ generation' = [generation EXCEPT ![w] = 0]
    /\ existing' = [existing EXCEPT ![w] = <<>>]
    /\ upload_calls' = [upload_calls EXCEPT ![w] = 0]

\* back in callback: 'Forbidden request logged successfully!' after
\* append_to_gcs_txt has returned, then message.ack()
Ack(w) ==
    /\ cb_pc[w] = "ack"
    /\ reported_logged' = IF IsForbidden(cb_data[w])
                          THEN reported_logged \cup {cb_msg[w]}
                          ELSE reported_logged
    /\ acked' = acked \cup {cb_msg[w]}
    /\ Leave(w)
    /\ UNCHANGED <<foreign_appends, log_generation, log_lines, delivered,
                   append_reported, nacked>>

\* except Exception: message.nack()
Nack(w) ==
    /\ cb_pc[w] = "nack"
    /\ nacked' = nacked \cup {cb_msg[w]}
    /\ Leave(w)
    /\ UNCHANGED <<foreign_appends, log_generation, log_lines, delivered,
                   append_reported, reported_logged, acked>>

\* an execution of append_to_gcs_txt outside this process (another instance of
\* the subscriber) gets its conditional upload through: the live content with
\* its line (shown as 0) becomes the next generation
ForeignAppend ==
    /\ foreign_appends < MaxForeign
    /\ foreign_appends' = foreign_appends + 1
    /\ log_lines' = Append(log_lines, 0)
    /\ log_generation' = log_generation + 1
    /\ UNCHANGED <<delivered, cb_pc, cb_msg, cb_data, attempt, generation, existing,
                   upload_calls, append_reported, reported_logged, acked, nacked>>

CallbackStep ==
    \E w \in Callbacks :
        \/ Receive(w)
        \/ Reload(w)
        \/ Download(w)
        \/ Upload(w)
        \/ UploadRaises(w)
        \/ Ack(w)
        \/ Nack(w)

InitSubscriber ==
    /\ streaming = FALSE
    /\ args_limit_files = 0
    /\ download_workers = 1
    /\ parse_workers = 1
    /\ bucket = <<>>
    /\ Fresh
    /\ first_run = <<>>
    /\ ParseIdle
    /\ PagerankIdle
    /\ SortIdle
    /\ SubscriberIdle
    /\ HttpIdle

NextSubscriber ==
    (CallbackStep \/ ForeignAppend)
        /\ UNCHANGED <<pipe_vars, parse_vars, rank_vars, sort_vars, http_vars>>

SpecSubscriber == InitSubscriber /\ [][NextSubscriber]_vars

(***************************************************************************)
(* hw3/main.py (functions_framework) and hw4/main.py (Flask): serve_file   *)
(* on one request. A header value is a sequence of tokens: blanks and      *)
(* words in some letter case; a path is a sequence of "/" and segments.    *)
(***************************************************************************)
Slash == "/"
BUCKET_NAME == "priya-cc-hw2"
TheObject == "a.html"

Methods == {"GET", "POST", "HEAD", "TRACE"}

\* methods=[...] of the two app.route decorators of hw4
RouteMethods == {"GET", "POST", "PUT", "DELETE", "PATCH", "HEAD", "OPTIONS"}

Paths ==
    {<<Slash>>, <<Slash, TheObject>>, <<Slash, BUCKET_NAME, Slash, TheObject>>,
     <<Slash, "none.html">>}

\* the values of the X-country header
HeaderValues ==
    {<<>>, <<SP>>, <<"iran">>, <<SP, "Iran", TAB>>, <<"IRAN", SP>>,
     <<"North", SP, "KOREA">>, <<"north", SP, SP, "korea">>, <<"usa">>,
     <<"iran", SP, "usa">>}

FORBIDDEN_COUNTRIES ==
    {<<"north", SP, "korea">>, <<"iran">>, <<"cuba">>, <<"myanmar">>, <<"iraq">>,
     <<"libya">>, <<"sudan">>, <<"zimbabwe">>, <<"syria">>}

\* str.lower() on one token
LowerOf(tok) ==
    CASE tok \in {"Iran", "IRAN"} -> "iran"
      [] tok \in {"North", "NORTH"} -> "north"
      [] tok \in {"Korea", "KOREA"} -> "korea"
      [] tok \in {"Usa", "USA"} -> "usa"
      [] OTHER -> tok

lower(s) == [i \in 1..Len(s) |-> LowerOf(s[i])]

\* request.path.lstrip("/")
RECURSIVE lstrip_slash(_)
lstrip_slash(path) ==
    IF path # <<>> /\ Head(path) = Slash THEN lstrip_slash(Tail(path)) ELSE path

\* request.headers.get('X-country', '').strip()
x_country == strip(IF h_headers = <<>> THEN <<>> ELSE h_headers[1])

\* if x_country and x_country.lower() in FORBIDDEN_COUNTRIES
IsForbiddenCountry == x_country # <<>> /\ lower(x_country) \in FORBIDDEN_COUNTRIES

\* blob.exists()
Exists(file_path) == object_present /\ file_path = <<TheObject>>

\* if status in [400, 404, 500, 501]
ErrorStatuses == {400, 404, 500, 501}

\* hw3 log_struct: logger.log_struct(entry) if logger, then publish_error(entry)
\* for an error status. publish_error returns at once without a publisher and
\* swallows the exception of a failed publish. A raising Cloud Logging call
\* leaves log_struct before publish_error.
log_struct_hw3(status, error_type, log_raises, publish_raises) ==
    IF logger_up /\ log_raises
    THEN [raised |-> TRUE, events |-> <<>>]
    ELSE [raised |-> FALSE,
          events |-> IF status \in ErrorStatuses /\ publisher_up /\ ~publish_raises
                     THEN <<error_type>> ELSE <<>>]

\* the except branch of hw3 serve_file: log_struct(500, ...) and the 500 response;
\* an exception of that log_struct leaves serve_file
InternalError_hw3(entries, calls, log_raises, publish_raises) ==
    LET l == log_struct_hw3(500, "INTERNAL_ERROR", log_raises, publish_raises)
    IN  [status |-> 500, entries |-> Append(entries, "INTERNAL_ERROR"),
         events |-> l.events, store |-> calls, unhandled |-> l.raised]

\* hw3 serve_file; an exception that leaves it is answered 500 by the framework
serve_file_hw3(log_raises, publish_raises, store_raises) ==
    LET raw_path == lstrip_slash(h_path)
        shown == IF raw_path = <<>> THEN <<Slash>> ELSE raw_path
        file_path == IF Len(raw_path) >= 2 /\ raw_path[1] = BUCKET_NAME
                        /\ raw_path[2] = Slash
                     THEN SubSeq(raw_path, 3, Len(raw_path)) ELSE raw_path
        Early(status, error_type) ==
            LET l == log_struct_hw3(status, error_type, log_raises, publish_raises)
            IN  [status |-> IF l.raised THEN 500 ELSE status,
                 entries |-> <<error_type>>, events |-> l.events, store |-> 0,
                 unhandled |-> l.raised]
        InTry(status, error_type, calls) ==
            LET l == log_struct_hw3(status, error_type, log_raises, publish_raises)
            IN  IF l.raised
                THEN InternalError_hw3(<<error_type>>, calls, log_raises,
                                       publish_raises)
                ELSE [status |-> status, entries |-> <<error_type>>,
                      events |-> l.events, store |-> calls, unhandled |-> FALSE]
    IN  IF IsForbiddenCountry THEN Early(400, "FORBIDDEN_COUNTRY")
        ELSE IF h_method # "GET" THEN Early(501, "NOT_IMPLEMENTED")
        ELSE IF raw_path = <<>> THEN Early(400, "EMPTY_PATH")
        ELSE IF store_raises
             THEN InternalError_hw3(<<>>, 1, log_raises, publish_raises)
        ELSE IF ~Exists(file_path) THEN InTry(404, "NOT_FOUND", 1)
        ELSE InTry(200, "NONE", 2)

\* hw4 log_struct: the Cloud Logging call is inside try/except; publish_error
\* starts a thread for an error status
log_struct_hw4(status, error_type) ==
    IF status \in ErrorStatuses THEN <<error_type>> ELSE <<>>

\* hw4 serve_file(file_path); the 200 response is sent without log_struct
serve_file_hw4(store_raises) ==
    LET file_path == Tail(h_path)
        Logged(status, error_type, calls) ==
            [status |-> status, entries |-> <<error_type>>,
             threads |-> log_struct_hw4(status, error_type), store |-> calls]
    IN  IF IsForbiddenCountry THEN Logged(400, "FORBIDDEN_COUNTRY", 0)
        ELSE IF h_method # "GET" THEN Logged(501, "NOT_IMPLEMENTED", 0)
        ELSE IF file_path = <<>> THEN Logged(400, "EMPTY_PATH", 0)
        ELSE IF store_raises THEN Logged(500, "INTERNAL_ERROR", 1)
        ELSE IF ~Exists(file_path) THEN Logged(404, "NOT_FOUND", 1)
        ELSE [status |-> 200, entries |-> <<>>, threads |-> <<>>, store |-> 2]

\* the framework hands the request to serve_file; Flask answers a method that
\* no route of hw4 lists with 405 Method Not Allowed
Route ==
    /\ h_pc = "request"
    /\ IF h_service = "hw4" /\ h_method \notin RouteMethods
       THEN h_pc' = "responded" /\ h_status' = 405
       ELSE h_pc' = "handler" /\ UNCHANGED h_status
    /\ UNCHANGED <<h_service, h_method, h_path, h_headers, object_present,
                   logger_up, publisher_up, h_entries, h_events, h_threads,
                   store_calls>>

\* serve_file of hw3 runs to its response
ServeFile_hw3 ==
    /\ h_pc = "handler"
    /\ h_service = "hw3"
    /\ \E log_raises, publish_raises, store_raises \in BOOLEAN :
          LET r == serve_file_hw3(log_raises, publish_raises, store_raises)
          IN  /\ h_status' = r.status
              /\ h_entries' = r.entries
              /\ h_events' = r.events
              /\ store_calls' = r.store
    /\ h_pc' = "responded"
    /\ UNCHANGED <<h_service, h_method, h_path, h_headers, object_present,
                   logger_up, publisher_up, h_threads>>

\* serve_file of hw4 runs to its response
ServeFile_hw4 ==
    /\ h_pc = "handler"
    /\ h_service = "hw4"
    /\ \E store_raises \in BOOLEAN :
          LET r == serve_file_hw4(store_raises)
          IN  /\ h_status' = r.status
              /\ h_entries' = r.entries
              /\ h_threads' = r.threads
              /\ store_calls' = r.store
    /\ h_pc' = "responded"
    /\ UNCHANGED <<h_service, h_method, h_path, h_headers, object_present,
                   logger_up, publisher_up, h_events>>

\* hw4 _publish on its daemon thread: the event is published, or the
\* exception is printed
PublishThread ==
    /\ h_threads # <<>>
    /\ \E raises \in BOOLEAN :
          h_events' = IF raises THEN h_events ELSE Append(h_events, Head(h_threads))
    /\ h_threads' = Tail(h_threads)
    /\ UNCHANGED <<h_pc, h_service, h_method, h_path, h_headers, object_present,
                   logger_up, publisher_up, h_status, h_entries, store_calls>>

InitRequest ==
    /\ h_pc = "request"
    /\ h_service \in {"hw3", "hw4"}
    /\ h_method \in Methods
    /\ h_path \in Paths
    /\ h_headers \in {<<>>} \cup {<<v>> : v \in HeaderValues}
    /\ object_present \in BOOLEAN
    /\ logger_up \in BOOLEAN
    /\ publisher_up \in BOOLEAN
    /\ h_status = 0
    /\ h_entries = <<>>
    /\ h_events = <<>>
    /\ h_threads = <<>>
    /\ store_calls = 0

InitServices ==
    /\ streaming = FALSE
    /\ args_limit_files = 0
    /\ download_workers = 1
    /\ parse_workers = 1
    /\ bucket = <<>>
    /\ Fresh
    /\ first_run = <<>>
    /\ ParseIdle
    /\ PagerankIdle
    /\ SortIdle
    /\ SubscriberIdle
    /\ InitRequest

NextServices ==
    (Route \/ ServeFile_hw3 \/ ServeFile_hw4 \/ PublishThread)
        /\ UNCHANGED <<pipe_vars, parse_vars, rank_vars, sort_vars, sub_vars>>

SpecServices == InitServices /\ [][NextServices]_vars

(***************************************************************************)
(* Properties.                                                             *)
(***************************************************************************)
RECURSIVE SumOver(_, _)
SumOver(f, S) ==
    IF S = {} THEN 0
    ELSE LET x == CHOOSE y \in S : TRUE
         IN  f[x] + SumOver(f, S \ {x})

SumOf(f) == SumOver(f, DOMAIN f)

\* a single-threaded run of the link extractor over every node's content
ReferenceOuts == [u \in nodes_set |-> parse_outgoing_links(bucket[u], nodes_set)]
ReferenceEdges == SumOf([u \in nodes_set |-> Len(ReferenceOuts[u])])

\* C1: when a pipeline mode returns, the out-degrees and the in-counts both sum to
\* the number of valid links a single-threaded run of the extractor finds.
C1_EdgeTotals ==
    pc = "returned" =>
        /\ SumOf(out_degree) = SumOf(in_counts)
        /\ SumOf(in_counts) = ReferenceEdges

C1_Witness ==
    /\ pc = "returned"
    /\ streaming
    /\ download_workers = 2
    /\ parse_futures # nodes
    /\ SumOf(in_counts) >= 6

\* the link whose count is incremented and whose append is still to come
PendingAppend(v) == pc = "agg_append" /\ v = cur[2][cur[3]]

\* C2: for every node v, in_counts[v] equals len(in_links[v]) at return and
\* whenever the main thread is between two parse results; inside the handling of
\* one link the count is ahead by exactly that one link, whatever the worker
\* threads do in between.
C2_CountsMatchLists ==
    created =>
        \A v \in DOMAIN in_counts :
            in_counts[v] = Len(in_links[v]) + (IF PendingAppend(v) THEN 1 ELSE 0)

C2_Witness ==
    /\ pc \in {"collect", "parse_loop"}
    /\ handled >= 1
    /\ \E v \in DOMAIN in_counts : in_counts[v] >= 2
    /\ \E u \in Names : parse_state[u] = "running"

FirstMode     == first_run[1]
FirstNodes    == first_run[2]
FirstOut      == first_run[3]
FirstInCounts == first_run[4]
FirstInBags   == first_run[5]

\* C3: on the same listing, content and limit, a run in one mode and a run in the
\* other return the same node list, the same out_degree, the same in_counts and,
\* for every node, the same in_links as a multiset.
C3_ModesAgree ==
    (pc = "returned" /\ first_run # <<>> /\ FirstMode # streaming) =>
        /\ nodes = FirstNodes
        /\ out_degree = FirstOut
        /\ in_counts = FirstInCounts
        /\ DOMAIN in_links = DOMAIN FirstInBags
        /\ \A v \in DOMAIN in_links : AsBag(in_links[v]) = FirstInBags[v]

C3_Witness ==
    /\ pc = "returned"
    /\ first_run # <<>>
    /\ FirstMode # streaming
    /\ Len(nodes) = 3
    /\ \E v \in DOMAIN in_links : Len(in_links[v]) >= 4 /\ in_links[v][1] # nodes[1]

Unfinished(state) == {u \in Names : state[u] \in {"queued", "running"}}

\* C4: when a pipeline mode returns, every node's retrieval task and parse task
\* has been submitted and has completed; none is pending or running.
C4_JoinBarrier ==
    pc = "returned" =>
        /\ Unfinished(dl_state) = {}
        /\ Unfinished(parse_state) = {}
        /\ \A u \in nodes_set : dl_state[u] = "done" /\ parse_state[u] = "done"

C4_Witness ==
    /\ pc = "returned"
    /\ ~streaming
    /\ Len(nodes) = 3
    /\ parse_workers = 2

\* the nodes whose retrieved content the running pipeline still references: the
\* result of a finished download future (download_futures / futures keep every
\* future until the function is left), the text argument of a parse task that has
\* not finished, an entry of downloaded_text
Held ==
    {u \in Names :
        \/ dl_state[u] = "done" /\ pc \notin {"returned", "failed"}
        \/ parse_state[u] \in {"queued", "running"}
        \/ u \in DOMAIN downloaded_text /\ pc \notin {"returned", "failed"}}

\* C5: in streaming mode the number of nodes whose retrieved content is held
\* never exceeds the retrieval pool size plus the parse pool size.
C5_HeldWithinPools ==
    streaming => Cardinality(Held) <= download_workers + parse_workers

\* C6 (as stated): in streaming mode a parse task for u exists only if u's
\* retrieval completed successfully, it holds the retrieved content, and once the
\* run is over every node whose retrieval completed has exactly one parse task.
C6_EveryCompletedRetrievalParsed ==
    streaming =>
        /\ \A u \in Names :
              parse_state[u] # "none" =>
                  dl_state[u] = "done" /\ parse_text[u] = bucket[u]
        /\ pc \in {"returned", "failed"} =>
              \A u \in Names : dl_state[u] = "done" => CountOf(parse_futures, u) = 1

\* C6 (amended): in streaming mode a parse task for u exists only if u's
\* retrieval completed successfully, and it holds exactly the content that
\* retrieval returned; no node ever has more than one parse task; when the run
\* returns, every node has exactly one.
C6_ParseAfterRetrieval ==
    streaming =>
        /\ \A u \in Names :
              parse_state[u] # "none" =>
                  /\ dl_state[u] = "done"
                  /\ parse_text[u] = bucket[u]
                  /\ CountOf(parse_futures, u) = 1
        /\ \A u \in Names : CountOf(parse_futures, u) <= 1
        /\ \A u \in Names : CountOf(parse_futures, u) = 1 => parse_state[u] # "none"
        /\ pc = "returned" => \A u \in nodes_set : CountOf(parse_futures, u) = 1

C6_Witness ==
    /\ streaming
    /\ pc = "dl_loop"
    /\ \E u, w \in nodes_set :
          /\ parse_state[u] = "running"
          /\ parse_text[u] # <<>>
          /\ dl_state[w] = "running"

SomeFailed == \E u \in Names : dl_state[u] = "failed"

\* C7: once the retrieval of a node has failed the run never returns a graph, it
\* ends in failure, and no node's get is ever invoked a second time.
C7_RetrievalFailureIsFatal ==
    /\ [](SomeFailed => pc # "returned")
    /\ [](\A u \in Names : get_calls[u] <= 1)
    /\ (SomeFailed ~> pc = "failed")

C7_Witness ==
    /\ pc = "failed"
    /\ \E u, w \in nodes_set :
          /\ dl_state[u] = "failed"
          /\ dl_state[w] = "done"
          /\ get_calls[u] = 1

NothingSubmitted ==
    /\ \A u \in Names : dl_state[u] = "none" /\ parse_state[u] = "none"
    /\ \A u \in Names : get_calls[u] = 0
    /\ parse_futures = <<>>

\* C8: with an empty listing the run, in either mode, raises at once: nothing is
\* submitted to a pool and no graph dict is created.
C8_EmptyListingRaises ==
    (DOMAIN bucket = {} /\ pc # "start") =>
        /\ pc = "raised"
        /\ ~created
        /\ NothingSubmitted

C8_Witness ==
    /\ DOMAIN bucket = {}
    /\ pc = "raised"
    /\ streaming

\* the node set: the sorted listing, cut to the limit
TheNodes == Truncate(SortNames(DOMAIN bucket), limit_files)

\* C9: from the creation of the dicts on, nodes is the listed node list, the keys
\* of out_degree, in_counts and in_links are exactly the node set, every source
\* in an in_links list and every parsed target is a node, and no lookup of a
\* missing key ever happens.
C9_ClosedWorld ==
    created =>
        /\ nodes = TheNodes
        /\ nodes_set = Range(TheNodes)
        /\ DOMAIN out_degree = nodes_set
        /\ DOMAIN in_counts = nodes_set
        /\ DOMAIN in_links = nodes_set
        /\ \A v \in DOMAIN in_links : Range(in_links[v]) \subseteq nodes_set
        /\ \A u \in Names : Range(parse_result[u]) \subseteq nodes_set
        /\ pc # "keyerror"

\* a run has returned in which links to the outsider and to a listed blob beyond
\* the limit were dropped
C9_Witness ==
    /\ pc = "returned"
    /\ N2 \in DOMAIN bucket
    /\ N2 \notin nodes_set
    /\ \E u \in nodes_set : bucket[u] # <<>> /\ out_degree[u] = 1

\* ---- what the extractor is to return, stated by positions in the text ----
Least(S) == CHOOSE i \in S : \A j \in S : i <= j
Greatest(S) == CHOOSE i \in S : \A j \in S : j <= i

\* the positions where a line of the text starts
LineStarts(text) == {i \in 1..Len(text) : i = 1 \/ text[i - 1] = NL}

\* the line that starts at position i: up to the next line break or the end
LineAt(text, i) ==
    LET brk == {j \in i..Len(text) : text[j] = NL}
    IN  SubSeq(text, i, IF brk = {} THEN Len(text) ELSE Least(brk) - 1)

\* s without its leading and trailing whitespace
Trimmed(s) ==
    LET solid == {i \in 1..Len(s) : s[i] \notin Whitespace}
    IN  IF solid = {} THEN <<>> ELSE SubSeq(s, Least(solid), Greatest(solid))

Untrimmed(s) == s

AllBlank(s, i, j) == \A k \in i..j : s[k] \in Whitespace

\* the occurrences of the pattern in s: <<k, q, c>> with the keyword at k, the
\* opening quote at q and the first quote after it at c
Occurrences(s) ==
    {occ \in (1..Len(s)) \X (1..Len(s)) \X (1..Len(s)) :
        LET k == occ[1]
            q == occ[2]
            c == occ[3]
        IN  /\ s[k] \in HrefKeywords
            /\ k < q /\ q < c
            /\ s[q] = QT /\ s[c] = QT
            /\ \A j \in (q + 1)..(c - 1) : s[j] # QT
            /\ \E e \in (k + 1)..(q - 1) :
                  s[e] = EQ /\ AllBlank(s, k + 1, e - 1) /\ AllBlank(s, e + 1, q - 1)}

\* the one candidate of a non-blank line; Value(_) is what is made of the quoted
\* value of the leftmost occurrence of the pattern
CandidateOf(line, Value(_)) ==
    LET occs == Occurrences(line)
        k    == Least({occ[1] : occ \in occs})
        occ  == CHOOSE o \in occs : o[1] = k
    IN  IF occs = {} THEN line ELSE Value(SubSeq(line, occ[2] + 1, occ[3] - 1))

\* the starts of the non-blank lines whose candidate is a member of S
KeptStarts(text, S, Value(_)) ==
    {i \in LineStarts(text) :
        LET line == Trimmed(LineAt(text, i))
        IN  line # <<>> /\ StrIn(CandidateOf(line, Value), S)}

\* the kept candidates in the order of their lines
ExpectedLinks(text, S, Value(_)) ==
    LET kept   == KeptStarts(text, S, Value)
        nth(pos) == CHOOSE i \in kept : Cardinality({j \in kept : j < i}) = pos - 1
    IN  [pos \in 1..Cardinality(kept) |->
            CandidateOf(Trimmed(LineAt(text, nth(pos))), Value)[1]]

NonBlankLines(text) ==
    {i \in LineStarts(text) : Trimmed(LineAt(text, i)) # <<>>}

\* C10 (as stated): the result is the sequence, in line order, of the candidates
\* of the non-blank lines that are members of the node set, a line's candidate
\* being the quoted value of its HREF pattern, or the trimmed line if it has none.
C10_QuotedValueAsIs ==
    p_pc = "returned" => p_out = ExpectedLinks(p_text, p_nodes_set, Untrimmed)

\* C10 (amended): as above, the candidate of a line with an HREF pattern being
\* the quoted value of the leftmost pattern with its surrounding whitespace
\* trimmed; the result has at most one element per non-blank line, only members
\* of the node set, and is empty for the empty text.
C10_ParseOutgoingLinks ==
    p_pc = "returned" =>
        /\ p_out = ExpectedLinks(p_text, p_nodes_set, Trimmed)
        /\ Len(p_out) <= Cardinality(NonBlankLines(p_text))
        /\ Range(p_out) \subseteq p_nodes_set
        /\ p_text = <<>> => p_out = <<>>

\* a call has returned the same name twice, once from a quoted value with blanks
\* around it and once from a bare line with blanks around it
C10_Witness ==
    /\ p_pc = "returned"
    /\ p_text = <<"HREF", EQ, QT, SP, N1, SP, QT, NL, SP, N1, TAB>>
    /\ p_out = <<N1, N1>>

\* ---- iterative_pagerank ----
Below(j) == TRUE \in Less(deltas[j], FromRat(tol_ratio))
NotBelow(j) == FALSE \in Less(deltas[j], FromRat(tol_ratio))

CalledOnAGraph == n >= 1 /\ max_iters >= 1

RankingOver == k_pc \in {"converged", "exhausted"}

ReturnedAsItShould ==
    /\ k_pc = "empty" => n = 0
    /\ (k_pc = "converged" /\ CalledOnAGraph) =>
          /\ 1 <= it /\ it <= max_iters
          /\ Len(deltas) = it
          /\ Below(it)
          /\ \A j \in 1..(it - 1) : NotBelow(j)
          /\ k_result = <<new_pr(old_pr), it>>
    /\ (k_pc = "exhausted" /\ CalledOnAGraph) =>
          /\ it = max_iters
          /\ Len(deltas) = max_iters
          /\ \A j \in 1..max_iters : NotBelow(j)
          /\ k_result = <<new_pr(old_pr), max_iters>>

\* C11: a call on n >= 1 nodes with a cap M >= 1 ends, either converged at the
\* first iteration k <= M whose delta is below the threshold, returning k, or
\* exhausted after exactly M iterations, returning M; the scores returned are the
\* new scores of the last iteration performed and the count is in 1..M.
C11_ConvergesOrExhausts ==
    /\ []ReturnedAsItShould
    /\ ((k_pc = "call" /\ CalledOnAGraph) ~> RankingOver)

C11_Witness ==
    /\ k_pc = "exhausted"
    /\ n = 2
    /\ max_iters = MaxIters
    /\ k_result[2] = MaxIters
    /\ tol_ratio = DefaultTol

\* the number of times t occurs in the in_links lists
TimesLinked(t) ==
    SumOf([a \in DOMAIN k_in_links |-> CountOf(k_in_links[a], t)])

\* both dicts have an entry for every node, and every node with out_degree > 0
\* occurs out_degree times in the in_links lists
LinksMatchDegrees ==
    /\ DOMAIN k_out_degree = Range(k_nodes)
    /\ DOMAIN k_in_links = Range(k_nodes)
    /\ \A t \in Range(k_nodes) :
          k_out_degree[t] > 0 => TimesLinked(t) = k_out_degree[t]

\* base = 1 - damping
BaseComplementsDamping ==
    base[1] * damping[2] + damping[1] * base[2] = base[2] * damping[2]

IsTestGraph ==
    /\ k_nodes = TestGraph.nodes
    /\ k_in_links = TestGraph.in_links
    /\ k_out_degree = TestGraph.out_degree

\* abs(sum(scores) - 1.0) < 1e-3, whatever the rounding
SumsToOne(scores) ==
    Less(AbsDiff(SumValues(k_nodes, scores), One), sum_tol) = {TRUE}

\* C12: with base = 1 - damping, on a graph whose in_links lists match its
\* out-degrees (the 4-node graph of the test among them), after every iteration
\* every score is >= 0 and the scores sum to 1.0 within 1e-3; so do the returned
\* scores.
C12_ScoresSumToOne ==
    (BaseComplementsDamping /\ LinksMatchDegrees /\ it >= 1) =>
        /\ \A u \in Range(k_nodes) : pr[u][1] >= 0
        /\ SumsToOne(pr)
        /\ k_result # <<>> =>
              /\ \A u \in Range(k_nodes) : k_result[1][u][1] >= 0
              /\ SumsToOne(k_result[1])

C12_Witness ==
    /\ IsTestGraph
    /\ BaseComplementsDamping
    /\ k_pc = "loop"
    /\ it = 5
    /\ SumsToOne(pr)
    /\ pr["D"][1] > 0

\* the call of the test: damping 0.85, base 0.15, tol_ratio 0.005, max_iters 200
IsTestCall ==
    /\ IsTestGraph
    /\ damping = DefaultDamping
    /\ base = DefaultBase
    /\ tol_ratio = DefaultTol
    /\ max_iters = DefaultMaxIters

\* C13: the call of the test on the 4-node graph returns scores of which C's is
\* strictly the highest.
C13_TopIsC ==
    (IsTestCall /\ k_result # <<>>) =>
        \A u \in Range(k_nodes) \ {"C"} : k_result[1]["C"][1] > k_result[1][u][2]

C13_Witness ==
    /\ IsTestCall
    /\ k_pc = "converged"
    /\ k_result[2] = 9
    /\ k_result[1]["A"][1] > k_result[1]["B"][2]

\* a single node without links
IsLoneNode ==
    /\ n = 1
    /\ k_in_links[k_nodes[1]] = <<>>
    /\ k_out_degree[k_nodes[1]] = 0

\* C14: on a single node without links, with base = 1 - damping, the first
\* iteration gives the node the score 1.0 exactly and observes delta 0, and the
\* call returns converged with iteration count 1.
C14_LoneNodeScoresOne ==
    (IsLoneNode /\ BaseComplementsDamping /\ max_iters >= 1 /\ it >= 1) =>
        /\ it = 1
        /\ pr[k_nodes[1]] = One
        /\ deltas = <<Zero>>
        /\ k_pc = "converged"
        /\ k_result = <<[u \in {k_nodes[1]} |-> One], 1>>

C14_Witness ==
    /\ IsLoneNode
    /\ damping = DefaultDamping
    /\ base = DefaultBase
    /\ k_pc = "converged"
    /\ max_iters = DefaultMaxIters
    /\ k_result[2] = 1

\* abs(sum(scores) - 1.0) > 1e-3, whatever the rounding
SumSurelyOff(scores) ==
    Greater(AbsDiff(SumValues(k_nodes, scores), One), sum_tol) = {TRUE}

\* C15: whenever a call ends, converged or exhausted, with scores whose sum is
\* off 1.0 by more than 1e-3, the warning has been printed and the scores and the
\* iteration count are returned all the same.
C15_WarnsWhenSumIsOff ==
    (RankingOver /\ n >= 1 /\ SumSurelyOff(pr)) =>
        /\ warned
        /\ k_result = <<pr, it>>

\* ---- the ranking ----
\* item i of the listing is ranked ahead of item j
Ahead(i, j) ==
    \/ s_items[i][2] > s_items[j][2]
    \/ s_items[i][2] = s_items[j][2] /\ i < j

\* the item with exactly k - 1 items ahead of it
RankedAt(k) ==
    s_items[CHOOSE i \in 1..Len(s_items) :
                Cardinality({j \in 1..Len(s_items) : Ahead(j, i)}) = k - 1]

\* C16: the ranking lists the (node, score) pairs by non-increasing score, nodes
\* of equal score in the order of the sorted listing; main prints its first five.
C16_RankedByScoreStable ==
    s_pc = "printed" =>
        /\ Len(s_top) = (IF Len(s_items) < TopCount THEN Len(s_items) ELSE TopCount)
        /\ \A k \in 1..Len(s_top) : s_top[k] = RankedAt(k)
        /\ \A k \in 1..(Len(s_top) - 1) : s_top[k][2] >= s_top[k + 1][2]

\* six pages, two ties: the tied pages keep their listing order and the sixth,
\* tied with the third of the ranking, is cut off
C16_Witness ==
    /\ s_pc = "printed"
    /\ Len(s_items) = 6
    /\ s_top = <<s_items[2], s_items[5], s_items[1], s_items[3], s_items[4]>>
    /\ s_items[2][2] = s_items[5][2]
    /\ s_items[1][2] = s_items[6][2]

\* ---- the order in which parse results are handled ----
IsPrefix(l, m) == Len(l) <= Len(m) /\ l = SubSeq(m, 1, Len(l))

\* the sources of the links to v in the order the results were handled: u once
\* for every occurrence of v in u's outs
RECURSIVE SourcesInOrder(_, _)
SourcesInOrder(order, v) ==
    IF order = <<>> THEN <<>>
    ELSE LET u == order[Len(order)]
         IN  SourcesInOrder(SubSeq(order, 1, Len(order) - 1), v)
                 \o [i \in 1..CountOf(parse_result[u], v) |-> u]

\* the results handled to the end: all but the one under way
Aggregated ==
    IF cur = <<>> THEN handle_order ELSE SubSeq(handle_order, 1, Len(handle_order) - 1)

CompletedAt(u) == IndexOf(parse_done_order, u)

\* C17 (as stated): in both modes parse results are handled in the order the
\* parse tasks complete, and that order is the order of the sources inside each
\* in_links list.
C17_HandledInCompletionOrder ==
    created =>
        /\ IsPrefix(handle_order, parse_done_order)
        /\ pc = "returned" =>
              \A v \in DOMAIN in_links : in_links[v] = SourcesInOrder(parse_done_order, v)

\* C17 (amended): the order of the sources inside each in_links list is the order
\* in which the results were handled. In streaming mode that is the order in
\* which the parse tasks were submitted; in two-phase mode the results that had
\* completed when as_completed was called come first, in any order, and the
\* others follow in the order of their completion.
C17_HandledInYieldOrder ==
    created =>
        /\ \A u \in Range(handle_order) : u \in Range(parse_done_order)
        /\ streaming => IsPrefix(handle_order, parse_futures)
        /\ ~streaming =>
              \A i, j \in 1..Len(handle_order) :
                  (i < j /\ handle_order[j] \in parse_early) =>
                      handle_order[i] \in parse_early
        /\ ~streaming =>
              \A i, j \in 1..Len(handle_order) :
                  (i < j /\ handle_order[i] \notin parse_early) =>
                      CompletedAt(handle_order[i]) < CompletedAt(handle_order[j])
        /\ pc \notin {"agg", "agg_append"} =>
              \A v \in DOMAIN in_links : in_links[v] = SourcesInOrder(Aggregated, v)

\* a streaming run has returned in which a later submitted parse task completed
\* before an earlier one and links from both were aggregated
C17_Witness ==
    /\ streaming
    /\ pc = "returned"
    /\ Len(handle_order) = 3
    /\ handle_order # parse_done_order
    /\ handle_order # nodes
    /\ \E v \in DOMAIN in_links : Len(in_links[v]) >= 4

\* C18: two runs of the same mode on the same listing, limit and content, whatever
\* their interleavings, return the same node list, the same out_degree and the
\* same in_counts; the in_links lists hold the same sources, possibly in another
\* order.
C18_ScheduleIndependent ==
    (pc = "returned" /\ first_run # <<>> /\ FirstMode = streaming) =>
        /\ nodes = FirstNodes
        /\ out_degree = FirstOut
        /\ in_counts = FirstInCounts
        /\ \A v \in DOMAIN in_links : AsBag(in_links[v]) = FirstInBags[v]

\* the second of two runs of the same mode has returned after handling the
\* results out of listing order
C18_Witness ==
    /\ pc = "returned"
    /\ first_run # <<>>
    /\ FirstMode = streaming
    /\ Len(nodes) = 3
    /\ handle_order # nodes
    /\ parse_done_order # handle_order
    /\ SumOf(in_counts) >= 6

\* C19: in a run that returns, download_as_text has been called exactly once for
\* every node of the node list; it is never called for a blob outside that list.
C19_EachNodeFetchedOnce ==
    /\ \A u \in Names \ Range(TheNodes) : get_calls[u] = 0
    /\ pc = "returned" => \A u \in Range(TheNodes) : get_calls[u] = 1

\* a run over a listing cut to two nodes has returned
C19_Witness ==
    /\ pc = "returned"
    /\ ~streaming
    /\ Cardinality(DOMAIN bucket) = 3
    /\ Len(nodes) = 2
    /\ get_calls[N1] = 1 /\ get_calls[N2] = 1 /\ get_calls[N3] = 0

\* C20: at return and in every state of the aggregation, every source t stored in
\* any in_links[v] has out_degree[t] >= 1: a node with out_degree 0 is never a source.
C20_SourcesHaveOutLinks ==
    \A v \in DOMAIN in_links :
        \A i \in 1..Len(in_links[v]) :
            /\ in_links[v][i] \in DOMAIN out_degree
            /\ out_degree[in_links[v][i]] >= 1

\* in the middle of an aggregation: one node has been recorded as a source while
\* another node of the graph has no outgoing link on record
C20_Witness ==
    /\ pc = "agg"
    /\ \E v \in DOMAIN in_links : in_links[v] # <<>>
    /\ \E t \in DOMAIN out_degree : out_degree[t] = 0

\* ---- the order inside the in_links lists ----
\* C21: two calls with the same nodes, out_degree and parameters whose in_links
\* lists are equal as multisets per node return the same iteration count and the
\* same scores.
C21_OrderInsensitive ==
    (RankingReturned /\ first_ranking # <<>>) => k_result = first_ranking.result

\* the second call has returned after two iterations at least, on in_links in
\* which some list of distinct sources is in another order than in the first call
C21_Witness ==
    /\ RankingReturned
    /\ first_ranking # <<>>
    /\ it >= 2
    /\ \E a \in DOMAIN k_in_links :
          /\ k_in_links[a] # first_ranking.in_links[a]
          /\ Cardinality(Range(k_in_links[a])) >= 2

\* ---- the node-count limit ----
\* the listed blobs the limit lets through: all of them for 0 (the default of
\* --limit_files), the first args_limit_files of the sorted listing otherwise
WithinLimit ==
    {u \in DOMAIN bucket :
        \/ args_limit_files = 0
        \/ IndexOf(list_nodes_from_bucket, u) <= args_limit_files}

\* the links of u's content to listed blobs, those beyond the limit left out
LinksWithinLimit(u) ==
    LET Kept(v) == v \in WithinLimit
    IN  SelectSeq(parse_one(u, bucket[u], DOMAIN bucket)[2], Kept)

\* C22: a limit of 0 means every listed node is processed; a positive limit N
\* makes the pipeline process exactly the first min(N, number listed) nodes of
\* the sorted listing, and links to listed nodes beyond the limit are dropped.
C22_LimitTruncatesListing ==
    /\ created =>
          /\ Len(nodes) = (IF args_limit_files = 0
                             \/ args_limit_files > Len(list_nodes_from_bucket)
                           THEN Len(list_nodes_from_bucket) ELSE args_limit_files)
          /\ \A i \in 1..Len(nodes) : nodes[i] = list_nodes_from_bucket[i]
          /\ Range(nodes) = WithinLimit
    /\ pc = "returned" =>
          /\ \A u \in WithinLimit :
                /\ get_calls[u] = 1
                /\ parse_result[u] = LinksWithinLimit(u)
                /\ out_degree[u] = Len(LinksWithinLimit(u))
          /\ \A u \in DOMAIN bucket \ WithinLimit :
                /\ get_calls[u] = 0
                /\ u \notin DOMAIN in_counts
                /\ u \notin DOMAIN in_links
                /\ u \notin DOMAIN out_degree

\* a run over three listed blobs with limit 1 has returned: the first blob names
\* itself and the second, and only the link to itself is kept
C22_Witness ==
    /\ pc = "returned"
    /\ args_limit_files = 1
    /\ Cardinality(DOMAIN bucket) = 3
    /\ nodes = <<N1>>
    /\ N2 \in Range(parse_one(N1, bucket[N1], DOMAIN bucket)[2])
    /\ out_degree[N1] = 1
    /\ in_links[N1] = <<N1>>

\* ---- sources without outgoing links ----
HasOutLinks(t) == t \in DOMAIN k_out_degree /\ k_out_degree[t] > 0
IsDangling(u) == u \notin DOMAIN k_out_degree \/ k_out_degree[u] = 0

\* the edge sum of a over the scores the last iteration started from, the
\* sources with out_degree 0 or none left out
EdgeSumOfLinked(a) ==
    LET srcs == IF a \in DOMAIN k_in_links THEN k_in_links[a] ELSE <<>>
        Linked(i) == HasOutLinks(srcs[i])
    IN  SumList(SelectSeq([i \in 1..Len(srcs) |-> i], Linked),
                [i \in 1..Len(srcs) |->
                    IF HasOutLinks(srcs[i])
                    THEN DivInt(old_pr[srcs[i]], k_out_degree[srcs[i]]) ELSE Zero])

\* the share every node gets of the scores of the nodes with out_degree 0 or none
UniformShare == DivInt(SumList(SelectSeq(k_nodes, IsDangling), old_pr), Len(k_nodes))

\* C23: no division by zero ever happens; a source whose out_degree is 0 or
\* missing adds nothing to the edge sum of the node that lists it, and its score
\* reaches every node alike through dangling_mass / n.
C23_NoDivisionByZero ==
    /\ k_pc # "zero_division"
    /\ (k_pc \in {"loop", "converged", "exhausted"} /\ it >= 1) =>
          \A a \in Range(k_nodes) :
              pr[a] = Add(DivInt(FromRat(base), Len(k_nodes)),
                          MulRat(damping, Add(EdgeSumOfLinked(a), UniformShare)))

\* two iterations have run on a graph in which one node lists a source with
\* out_degree 0 and a source with no out_degree on record
C23_Witness ==
    /\ k_pc \in {"loop", "converged", "exhausted"}
    /\ it >= 2
    /\ \E a \in DOMAIN k_in_links :
          /\ \E t \in Range(k_in_links[a]) : t \in DOMAIN k_out_degree /\ k_out_degree[t] = 0
          /\ \E t \in Range(k_in_links[a]) : t \notin DOMAIN k_out_degree
          /\ \E t \in Range(k_in_links[a]) : HasOutLinks(t)

\* ---- the subscriber's log object ----
\* C24: a FORBIDDEN_COUNTRY message that the callback reports as logged
\* successfully and acknowledges has its line in the log object; a message whose
\* append did not succeed within max_retries attempts is not reported as logged.
C24_LoggedBeforeAcked ==
    \A m \in reported_logged :
        /\ m \in append_reported
        /\ m \in Range(log_lines)

\* the lines of the messages whose append printed 'Appended to (safe)'
LinesKept == \A m \in append_reported : m \in Range(log_lines)

\* a step that writes the log object is the upload of a thread whose generation
\* is the live one, and it keeps every line that was there
UploadsExtend ==
    log_lines' # log_lines =>
        /\ IsPrefix(log_lines, log_lines')
        /\ \/ \E w \in Callbacks :
                 /\ cb_pc[w] = "upload"
                 /\ generation[w] = log_generation
                 /\ log_lines' = Append(log_lines, cb_msg[w])
           \/ /\ log_lines' = Append(log_lines, 0)
              /\ foreign_appends' = foreign_appends + 1

\* C25: whatever the interleaving of the appenders, an upload succeeds only with
\* the live generation and drops no line, the log object holds every line whose
\* append reported success, and no message gets more than max_retries uploads.
C25_NoLostAppend ==
    /\ [](LinesKept /\ \A w \in Callbacks : upload_calls[w] <= DefaultMaxRetries)
    /\ [][UploadsExtend]_vars

\* three lines are in the log, the last one written at a second attempt at
\* least, after an upload of its thread had failed on a changed generation
C25_Witness ==
    /\ Len(log_lines) >= 3
    /\ \E w \in Callbacks :
          /\ cb_pc[w] = "ack"
          /\ attempt[w] >= 2
          /\ cb_msg[w] = log_lines[Len(log_lines)]
          /\ cb_msg[w] \in append_reported

\* ---- requests from a forbidden country ----
\* the spellings of a word of a country name
Spellings(word) ==
    CASE word = "iran" -> {"iran", "Iran", "IRAN"}
      [] word = "north" -> {"north", "North", "NORTH"}
      [] word = "korea" -> {"korea", "Korea", "KOREA"}
      [] OTHER -> {word}

\* the request has an X-country header whose value is the name of a forbidden
\* country in some letter case, with blanks before and after it at most
NamesForbiddenCountry ==
    /\ h_headers # <<>>
    /\ \E c \in FORBIDDEN_COUNTRIES :
          \E i \in 1..Len(h_headers[1]) :
              /\ i + Len(c) - 1 <= Len(h_headers[1])
              /\ \A j \in 1..Len(c) :
                    \/ h_headers[1][i + j - 1] \in Spellings(c[j])
                    \/ c[j] = SP /\ h_headers[1][i + j - 1] = SP
              /\ \A j \in 1..Len(h_headers[1]) :
                    (j < i \/ j > i + Len(c) - 1) => h_headers[1][j] \in Whitespace

\* the request is answered and no publish thread is left
Answered == h_pc = "responded" /\ h_threads = <<>>

\* C26: in both services a request whose X-country header names a forbidden
\* country is answered 400 with error type FORBIDDEN_COUNTRY, whatever its method
\* and path, without any access to the object store, and exactly one error event
\* is published for it.
C26_ForbiddenCountryFirst ==
    (Answered /\ NamesForbiddenCountry) =>
        /\ h_status = 400
        /\ h_entries = <<"FORBIDDEN_COUNTRY">>
        /\ store_calls = 0
        /\ h_events = <<"FORBIDDEN_COUNTRY">>

====
